---- MODULE Spec2Model ----
(***************************************************************************)
(* A model of vigilant: the orchestrator loop of cmd/vigilant/main.go with *)
(* the alert source, the risk tracker, the change gate, the LLM cache and  *)
(* the summarizer; the risk tracker on its own; the API publisher with its *)
(* WebSocket hub.                                                          *)
(*                                                                         *)
(* Time is counted in whole minutes.  Durations of the code are the Go     *)
(* durations expressed in minutes.  A confidence (a float in [0,1]) is     *)
(* kept in hundredths, so 85 is 0.85.  A hash (hex MD5 of the JSON         *)
(* encoding) is kept as the encoded value itself inside a 1-tuple, which   *)
(* is what a collision-free hash distinguishes; the empty Go string (the   *)
(* hash fields of the initial lastState) is the empty tuple.               *)
(***************************************************************************)
EXTENDS Integers, Sequences, FiniteSets, TLC

VARIABLES
    now,                    \* wall clock, minutes since the process started
    ticks,                  \* loop iterations of main begun so far
    stalls,                 \* iterations so far that took a quarter of an hour or more
    tracker,                \* RiskTracker.Items: key -> RiskItem
    lastState,              \* main's lastState (StateSnapshot)
    lastSuccessfulLLMData,  \* main's package variable: service -> RootCauseSummary
    llmCache,               \* LLMCache.cache: input hash -> CachedSummary
    currentAPIRisks,        \* api package variable: the stored snapshot
    tick,                   \* what the last loop iteration observed and did
    lastGood,               \* per record service, the last verdict the oracle itself returned
    calls,                  \* gate fingerprint -> time of the last GetOrSummarize call with it
    call,                   \* the direct call of GetOrSummarize made since the last iteration
    trackerOp,              \* the last operation applied to the tracker on its own, and what it removed
    nops,                   \* tracker operations applied so far
    riskMu,                 \* api.riskMu: the writer flag and the set of read holders
    hub,                    \* WebSocketHub.Run: where it is, and what it took from its channel
    clients,                \* WebSocketHub.clients
    conns,                  \* per client: its pumps, its send channel, what was enqueued to it
    upd,                    \* the goroutine calling UpdateRisks: where it is, calls begun and returned
    gets,                   \* per GET /api/risks request: where it is and what it read
    pushed,                 \* per UpdateRisks call: whether the push was skipped, and who was listening
    probe,                  \* the last call of a function made on its own: its name, input and output
    proc                    \* the process: where main and the shutdown goroutine are, the signal, the context, the exit status

pubVars == <<riskMu, hub, clients, conns, upd, gets, pushed>>

orchVars == <<now, ticks, stalls, tracker, lastState, lastSuccessfulLLMData, llmCache,
              tick, lastGood, calls, call, trackerOp, nops>>

vars == <<now, ticks, stalls, tracker, lastState, lastSuccessfulLLMData, llmCache,
          currentAPIRisks, tick, lastGood, calls, call, trackerOp, nops,
          riskMu, hub, clients, conns, upd, gets, pushed, probe, proc>>

(***************************************************************************)
(* Program constants (minutes) and the bounds of the model.                *)
(***************************************************************************)
TrackerTTL == 2

CacheTTL == 15

maxLLMUpdateAge == 30

MaxTicks == 3

MaxStalls == 1

MaxOps == 6
MaxChecks == 2      \* metric checks of one service evaluated in one call
MaxUpdates == 2     \* UpdateRisks calls made while the publisher is watched on its own
SendBuffer == 2     \* capacity of a client's send channel (256 in handleWebSocket)

EmptyMap == <<>>

(***************************************************************************)
(* Profiles: the table LoadServiceProfiles returns for config/services,    *)
(* keyed by the name field; main derives validServices from its keys.      *)
(* The table holds MyAPI and node of config/services and PaymentAPI, the   *)
(* example of README_SERVICE_CONFIG.md, whose alert_pattern is not its     *)
(* name.                                                                   *)
(***************************************************************************)
ProfileNames == {"MyAPI", "node", "PaymentAPI"}

\* Of each profile, its alert_pattern and its first metric check: MyAPI.yml lines 12 and
\* 40-44, node.yml lines 12 and 55-59, README_SERVICE_CONFIG.md lines 33 and 52-55.
profiles ==
    [p \in ProfileNames |->
        [AlertPattern |-> IF p = "PaymentAPI" THEN "PaymentServiceDown" ELSE p,
         Metrics |-> << [Name      |-> CASE p = "MyAPI" -> "ServiceAvailability"
                                         [] p = "node" -> "NodeUp"
                                         [] OTHER -> "PaymentSuccessRate",
                         Operator  |-> "<",
                         Threshold |-> IF p = "PaymentAPI" THEN 95 ELSE 1] >>]]

validServices == ProfileNames

(***************************************************************************)
(* Alert source: pkg/prometheus FetchAlerts(promURL, validServices).       *)
(***************************************************************************)
RawAlert(n, i, st) == [alertname |-> n, instance |-> i, severity |-> "critical", state |-> st]

extractServiceFromLabels(labels, valid) ==
    IF labels.alertname \in valid THEN labels.alertname ELSE "unknown"

\* An alert source that keeps every firing alert.
RECURSIVE FetchAlerts_Unfiltered(_, _)
FetchAlerts_Unfiltered(raw, valid) ==
    IF raw = <<>> THEN <<>>
    ELSE LET a == Head(raw)
             alert == [Name     |-> a.alertname,
                       Instance |-> a.instance,
                       Severity |-> a.severity,
                       Service  |-> extractServiceFromLabels(a, valid)]
             rest == FetchAlerts_Unfiltered(Tail(raw), valid)
         IN IF a.state = "firing" THEN <<alert>> \o rest ELSE rest

RECURSIVE FetchAlerts(_, _)
FetchAlerts(raw, valid) ==
    IF raw = <<>> THEN <<>>
    ELSE LET a == Head(raw)
             alert == [Name     |-> a.alertname,
                       Instance |-> a.instance,
                       Severity |-> a.severity,
                       Service  |-> extractServiceFromLabels(a, valid)]
             rest == FetchAlerts(Tail(raw), valid)
         IN IF a.state = "firing" /\ (valid = {} \/ alert.Name \in valid)
            THEN <<alert>> \o rest
            ELSE rest

\* The bodies the alerts endpoint answers with in the loop of main.  Every firing
\* alert carries the instance label "MyAPI": for the alert MyAPI the label equals the
\* profile name, for the alert node it does not.  Ghost is no profile's alert;
\* PaymentServiceDown is the alert_pattern of the profile PaymentAPI.
FetchResponses ==
    { <<>>,
      << RawAlert("MyAPI", "MyAPI", "firing") >>,
      << RawAlert("node", "MyAPI", "firing"), RawAlert("MyAPI", "host1", "pending") >>,
      << RawAlert("Ghost", "MyAPI", "firing"),
         RawAlert("PaymentServiceDown", "MyAPI", "firing") >> }

(***************************************************************************)
(* Risk tracker: pkg/risk/tracker.go.                                      *)
(***************************************************************************)
RECURSIVE UpdateFromAlerts(_, _, _)
UpdateFromAlerts(items, alerts, t) ==
    IF alerts = <<>> THEN items
    ELSE LET a == Head(alerts)
             key == a.Instance
             updated == IF key \in DOMAIN items
                    THEN [items EXCEPT ![key].LastSeen = t, ![key].TTL = TrackerTTL]
                    ELSE (key :> [Service   |-> a.Instance,
                                  AlertName |-> a.Name,
                                  Severity  |-> a.Severity,
                                  FirstSeen |-> t,
                                  LastSeen  |-> t,
                                  TTL       |-> TrackerTTL]) @@ items
         IN UpdateFromAlerts(updated, Tail(alerts), t)

\* A cleanup that subtracts the wrong way round, and so never finds an item too old.
TrackerCleanupExpired_Swapped(items, t) ==
    LET keep == {k \in DOMAIN items : ~(items[k].LastSeen - t > items[k].TTL)}
    IN [k \in keep |-> items[k]]

\* A cleanup that removes nothing.
TrackerCleanupExpired_KeepAll(items, t) == items

TrackerCleanupExpired(items, t) ==
    LET keep == {k \in DOMAIN items : ~(t - items[k].LastSeen > items[k].TTL)}
    IN [k \in keep |-> items[k]]

(***************************************************************************)
(* Hashing: pkg/hashutil HashData, and the simplified projections.         *)
(***************************************************************************)
HashData(data) == <<data>>

SimplifiedAlert(item) ==
    [Service |-> item.Service, AlertName |-> item.AlertName, Severity |-> item.Severity]

SimplifiedSymptom(sym) ==
    [Service |-> sym.Service, Pattern |-> sym.Pattern, Count |-> sym.Count]

SimplifiedMetric(m) ==
    [Service |-> m.Service, CheckName |-> m.Check.Name, Value |-> m.Value,
     Operator |-> m.Check.Operator, Threshold |-> m.Check.Threshold]

(***************************************************************************)
(* What the log store and the metrics backend answer for one profile in    *)
(* one tick: the symptom list the log scan returns (service labels as the  *)
(* scan resolved them) and, per check of the profile, the query response.  *)
(***************************************************************************)
Sym(svc, pat, cnt, t) == [Service |-> svc, Pattern |-> pat, Count |-> cnt, LastSeen |-> t]

QueryFailed == [ok |-> FALSE, result |-> <<>>]

\* The scalar of a result as the backend writes it, a string, and strconv.ParseFloat
\* on it: the value, or 0 and an error for a text that is no number.
FormatFloat(v) == CASE v = 0 -> "0" [] v = 1 -> "1" [] v = 2 -> "2"

ParseFloat(raw) ==
    CASE raw = "0" -> [val |-> 0, err |-> FALSE]
      [] raw = "1" -> [val |-> 1, err |-> FALSE]
      [] raw = "2" -> [val |-> 2, err |-> FALSE]
      [] OTHER -> [val |-> 0, err |-> TRUE]

QueryValue(v) == [ok |-> TRUE, result |-> <<FormatFloat(v)>>]

QueryGarbage == [ok |-> TRUE, result |-> <<"n/a">>]

QueryEmpty == [ok |-> TRUE, result |-> <<>>]

Observations(t) ==
    { [symptoms |-> <<>>, metrics |-> <<QueryValue(1)>>],
      [symptoms |-> <<Sym("unknown", "critical_error", 2, t), Sym("node", "kernel_error", 1, t)>>,
       metrics  |-> <<QueryValue(0)>>],
      [symptoms |-> <<Sym("unknown", "critical_error", 5, t)>>, metrics |-> <<QueryFailed>>] }

(***************************************************************************)
(* Metric evaluator: pkg/prometheus EvaluateMetricChecks for one service.  *)
(***************************************************************************)
\* An evaluator whose "<" also triggers on equality.
RECURSIVE EvaluateMetricChecks_LessOrEqual(_, _, _)
EvaluateMetricChecks_LessOrEqual(service, checks, responses) ==
    IF checks = <<>> THEN <<>>
    ELSE LET check == Head(checks)
             resp == Head(responses)
             rest == EvaluateMetricChecks_LessOrEqual(service, Tail(checks), Tail(responses))
         IN IF ~resp.ok \/ Len(resp.result) = 0 THEN rest
            ELSE LET val == ParseFloat(resp.result[1]).val
                     triggered == CASE check.Operator = ">" -> val > check.Threshold
                                    [] check.Operator = "<" -> val <= check.Threshold
                                    [] OTHER -> FALSE
                 IN IF triggered
                    THEN <<[Service |-> service, Check |-> check, Value |-> val]>> \o rest
                    ELSE rest

RECURSIVE EvaluateMetricChecks(_, _, _)
EvaluateMetricChecks(service, checks, responses) ==
    IF checks = <<>> THEN <<>>
    ELSE LET check == Head(checks)
             resp == Head(responses)
             rest == EvaluateMetricChecks(service, Tail(checks), Tail(responses))
         IN IF ~resp.ok \/ Len(resp.result) = 0 THEN rest
            ELSE LET val == ParseFloat(resp.result[1]).val
                     triggered == CASE check.Operator = ">" -> val > check.Threshold
                                    [] check.Operator = "<" -> val < check.Threshold
                                    [] OTHER -> FALSE
                 IN IF triggered
                    THEN <<[Service |-> service, Check |-> check, Value |-> val]>> \o rest
                    ELSE rest

(***************************************************************************)
(* pkg/utils ConvertSymptoms and ConvertMetrics.                           *)
(***************************************************************************)
APISymptom(s) == [Pattern |-> s.Pattern, Count |-> s.Count]

ConvertSymptoms(symptoms) == [i \in 1..Len(symptoms) |-> APISymptom(symptoms[i])]

APIMetric(m) ==
    [Name |-> m.Check.Name, Value |-> m.Value, Operator |-> m.Check.Operator,
     Threshold |-> m.Check.Threshold]

ConvertMetrics(metrics) == [i \in 1..Len(metrics) |-> APIMetric(metrics[i])]

(***************************************************************************)
(* Correlator: the loop over tracker.Items in main.                        *)
(***************************************************************************)
ProfileKey(item) ==
    IF item.AlertName \in DOMAIN profiles THEN item.AlertName ELSE item.Service

\* A loop that attaches every symptom of the scan as it is labelled.
RECURSIVE FilterSymptoms_KeepAll(_, _)
FilterSymptoms_KeepAll(symptoms, service) ==
    IF symptoms = <<>> THEN <<>>
    ELSE LET sym == Head(symptoms)
             rest == FilterSymptoms_KeepAll(Tail(symptoms), service)
         IN <<sym>> \o rest

\* Lines 301-316: keep the symptoms of the processed service, "unknown" rewritten to it.
RECURSIVE FilterSymptoms(_, _)
FilterSymptoms(symptoms, service) ==
    IF symptoms = <<>> THEN <<>>
    ELSE LET sym == Head(symptoms)
             rest == FilterSymptoms(Tail(symptoms), service)
         IN IF sym.Service = service \/ sym.Service = "unknown"
            THEN <<[sym EXCEPT !.Service = service]>> \o rest
            ELSE rest

NewAPIRiskItem(service, item, serviceSymptoms, metrics, t) ==
    [Service          |-> service,
     Alert            |-> item.AlertName,
     Severity         |-> item.Severity,
     Score            |-> 0,
     Symptoms         |-> ConvertSymptoms(serviceSymptoms),
     Metrics          |-> ConvertMetrics(metrics),
     Summary          |-> "",
     Risk             |-> "Unknown",
     Confidence       |-> 0,
     RootCause        |-> "",
     ImmediateActions |-> <<>>,
     Investigation    |-> <<>>,
     Prevention       |-> "",
     Timestamp        |-> t]

EmptyAcc ==
    [correlations |-> <<>>, uiData |-> <<>>, simplifiedSymptoms |-> <<>>,
     simplifiedMetrics |-> <<>>, currentSymptomCount |-> 0, currentMetricCount |-> 0]

\* A loop without the seen set: every item with a profile gets its correlation.
RECURSIVE ProcessItems_NoSeen(_, _, _, _, _, _)
ProcessItems_NoSeen(order, items, obs, t, seen, acc) ==
    IF order = <<>> THEN acc
    ELSE LET item == items[Head(order)]
             profileKey == ProfileKey(item)
         IN IF profileKey \notin DOMAIN profiles
            THEN ProcessItems_NoSeen(Tail(order), items, obs, t, seen \cup {profileKey}, acc)
            ELSE LET service == profileKey
                     serviceSymptoms == FilterSymptoms(obs[profileKey].symptoms, service)
                     metrics == EvaluateMetricChecks(service, profiles[profileKey].Metrics,
                                                     obs[profileKey].metrics)
                     next == [correlations |->
                                  Append(acc.correlations,
                                         [Alert |-> item, Symptoms |-> serviceSymptoms,
                                          Metrics |-> metrics]),
                              uiData |->
                                  Append(acc.uiData,
                                         NewAPIRiskItem(service, item, serviceSymptoms, metrics, t)),
                              simplifiedSymptoms |->
                                  acc.simplifiedSymptoms \o
                                      [i \in 1..Len(serviceSymptoms) |->
                                          SimplifiedSymptom(serviceSymptoms[i])],
                              simplifiedMetrics |->
                                  acc.simplifiedMetrics \o
                                      [i \in 1..Len(metrics) |-> SimplifiedMetric(metrics[i])],
                              currentSymptomCount |-> acc.currentSymptomCount + Len(serviceSymptoms),
                              currentMetricCount |-> acc.currentMetricCount + Len(metrics)]
                 IN ProcessItems_NoSeen(Tail(order), items, obs, t, seen \cup {profileKey}, next)

\* Lines 216-370: the loop over tracker.Items, in the order the range enumerates them.
RECURSIVE ProcessItems(_, _, _, _, _, _)
ProcessItems(order, items, obs, t, seen, acc) ==
    IF order = <<>> THEN acc
    ELSE LET item == items[Head(order)]
             profileKey == ProfileKey(item)
         IN IF profileKey \in seen
            THEN ProcessItems(Tail(order), items, obs, t, seen, acc)
            ELSE IF profileKey \notin DOMAIN profiles
            THEN ProcessItems(Tail(order), items, obs, t, seen \cup {profileKey}, acc)
            ELSE LET service == profileKey
                     serviceSymptoms == FilterSymptoms(obs[profileKey].symptoms, service)
                     metrics == EvaluateMetricChecks(service, profiles[profileKey].Metrics,
                                                     obs[profileKey].metrics)
                     next == [correlations |->
                                  Append(acc.correlations,
                                         [Alert |-> item, Symptoms |-> serviceSymptoms,
                                          Metrics |-> metrics]),
                              uiData |->
                                  Append(acc.uiData,
                                         NewAPIRiskItem(service, item, serviceSymptoms, metrics, t)),
                              simplifiedSymptoms |->
                                  acc.simplifiedSymptoms \o
                                      [i \in 1..Len(serviceSymptoms) |->
                                          SimplifiedSymptom(serviceSymptoms[i])],
                              simplifiedMetrics |->
                                  acc.simplifiedMetrics \o
                                      [i \in 1..Len(metrics) |-> SimplifiedMetric(metrics[i])],
                              currentSymptomCount |-> acc.currentSymptomCount + Len(serviceSymptoms),
                              currentMetricCount |-> acc.currentMetricCount + Len(metrics)]
                 IN ProcessItems(Tail(order), items, obs, t, seen \cup {profileKey}, next)

\* The profiles the loop will query the log store and the backend for.
ProcessedKeys(items) ==
    {ProfileKey(items[k]) : k \in DOMAIN items} \cap DOMAIN profiles

\* The orders in which a Go range statement may enumerate the keys of a map.
Orders(S) ==
    {o \in [1..Cardinality(S) -> S] : \A i, j \in 1..Cardinality(S) : i # j => o[i] # o[j]}

(***************************************************************************)
(* Change gate: StateSnapshot, HasChanged, ShouldForceUpdate, and the      *)
(* shouldCallLLM decision of main.                                         *)
(***************************************************************************)
\* A gate that compares the three counts and forgets the three hashes.
HasChanged_CountsOnly(s, other) ==
    \/ s.AlertCount # other.AlertCount
    \/ s.SymptomCount # other.SymptomCount
    \/ s.MetricCount # other.MetricCount

HasChanged(s, other) ==
    \/ s.AlertCount # other.AlertCount
    \/ s.SymptomCount # other.SymptomCount
    \/ s.MetricCount # other.MetricCount
    \/ s.AlertsHash # other.AlertsHash
    \/ s.SymptomsHash # other.SymptomsHash
    \/ s.MetricsHash # other.MetricsHash

\* A forced refresh that already fires when the age equals maxAge.
ShouldForceUpdate_AtMaxAge(s, maxAge, t) == t - s.LastLLMUpdate >= maxAge

ShouldForceUpdate(s, maxAge, t) == t - s.LastLLMUpdate > maxAge

ShouldCallLLM(correlations, currentState, last, t) ==
    LET shouldCallLLM == Len(correlations) > 0 /\ HasChanged(currentState, last)
    IN \/ shouldCallLLM
       \/ /\ Len(correlations) > 0
          /\ ~shouldCallLLM
          /\ ShouldForceUpdate(currentState, maxLLMUpdateAge, t)

(***************************************************************************)
(* Summarizer: pkg/summarizer.  A reply is what the chat-completion call   *)
(* gave for one group: an error, or the parsed JSON object.                *)
(***************************************************************************)
ZeroSummary ==
    [Risk |-> "", Confidence |-> 0, RootCause |-> "", ImmediateActions |-> <<>>,
     Investigation |-> <<>>, Prevention |-> "", Summary |-> ""]

ReplyError == [ok |-> FALSE, parsed |-> ZeroSummary]

ReplyOf(v) == [ok |-> TRUE, parsed |-> v]

OracleReplies ==
    { ReplyError,
      ReplyOf([ZeroSummary EXCEPT !.Risk = "High", !.Confidence = 85,
                                  !.RootCause = "upstream timeout",
                                  !.ImmediateActions = <<"restart">>]) }

\* Summarize, lines 64-94: the error, or the parsed reply with its defaults filled in.
Summarize(reply) ==
    IF ~reply.ok THEN [err |-> TRUE, summary |-> ZeroSummary]
    ELSE LET r0 == reply.parsed
             r1 == IF r0.Summary = "" THEN [r0 EXCEPT !.Summary = r0.RootCause] ELSE r0
             r2 == IF r1.Risk = "" THEN [r1 EXCEPT !.Risk = "Medium"] ELSE r1
             r3 == IF r2.Confidence = 0 THEN [r2 EXCEPT !.Confidence = 50] ELSE r2
         IN [err |-> FALSE, summary |-> r3]

LLMErrorSummary ==
    [ZeroSummary EXCEPT !.Risk = "Unknown", !.Summary = "LLM error or insufficient data"]

Groups(correlations) == {correlations[i].Alert.Service : i \in 1..Len(correlations)}

\* oracle: group service -> reply of the chat completion for that group.
SummarizeMany(correlations, oracle) ==
    [err |-> FALSE,
     results |-> [service \in Groups(correlations) |->
                     LET r == Summarize(oracle[service])
                     IN IF r.err THEN LLMErrorSummary ELSE r.summary]]

(***************************************************************************)
(* LLM cache: pkg/llmcache.                                                *)
(***************************************************************************)
\* A lookup that still serves an entry whose age is exactly its TTL.
CacheHit_AtTTL(cache, correlations, t) ==
    LET inputHash == HashData(correlations)
    IN /\ inputHash \in DOMAIN cache
       /\ t - cache[inputHash].Timestamp <= cache[inputHash].TTL

CacheHit(cache, correlations, t) ==
    LET inputHash == HashData(correlations)
    IN /\ inputHash \in DOMAIN cache
       /\ t - cache[inputHash].Timestamp < cache[inputHash].TTL

\* The groups GetOrSummarize asks the oracle about.
OracleGroups(cache, correlations, t) ==
    IF Len(correlations) = 0 \/ CacheHit(cache, correlations, t)
    THEN {}
    ELSE Groups(correlations)

\* A cache that hashes, asks and stores for an empty list too.
GetOrSummarize_NoEarlyReturn(cache, correlations, t, oracle) ==
    LET inputHash == HashData(correlations)
    IN IF CacheHit(cache, correlations, t)
       THEN [cache |-> cache, summary |-> cache[inputHash].Summary,
             err |-> FALSE, invoked |-> {}]
       ELSE LET r == SummarizeMany(correlations, oracle)
            IN [cache |-> (inputHash :> [Summary   |-> r.results,
                                         InputHash |-> inputHash,
                                         Timestamp |-> t,
                                         TTL       |-> CacheTTL]) @@ cache,
                summary |-> r.results, err |-> FALSE,
                invoked |-> Groups(correlations)]

GetOrSummarize(cache, correlations, t, oracle) ==
    IF Len(correlations) = 0
    THEN [cache |-> cache, summary |-> EmptyMap, err |-> FALSE, invoked |-> {}]
    ELSE LET inputHash == HashData(correlations)
         IN IF CacheHit(cache, correlations, t)
            THEN [cache |-> cache, summary |-> cache[inputHash].Summary,
                  err |-> FALSE, invoked |-> {}]
            ELSE LET r == SummarizeMany(correlations, oracle)
                 IN IF r.err
                    THEN [cache |-> cache, summary |-> EmptyMap, err |-> TRUE,
                          invoked |-> Groups(correlations)]
                    ELSE [cache |-> (inputHash :> [Summary   |-> r.results,
                                                   InputHash |-> inputHash,
                                                   Timestamp |-> t,
                                                   TTL       |-> CacheTTL]) @@ cache,
                          summary |-> r.results, err |-> FALSE,
                          invoked |-> Groups(correlations)]

CacheCleanupExpired(cache, t) ==
    LET keep == {h \in DOMAIN cache : ~(t - cache[h].Timestamp > cache[h].TTL)}
    IN [h \in keep |-> cache[h]]

(***************************************************************************)
(* Attaching verdicts to uiData: the two copies of the loop in main.       *)
(***************************************************************************)
ToLower(s) ==
    CASE s = "Critical" -> "critical"
      [] s = "High" -> "high"
      [] s = "Medium" -> "medium"
      [] s = "Low" -> "low"
      [] s = "Unknown" -> "unknown"
      [] s = "HIGH" -> "high"
      [] OTHER -> s

\* int(x) of Go for the float x = n/d: the fraction is dropped, towards zero.
Trunc(n, d) == IF n >= 0 THEN n \div d ELSE -((-n) \div d)

\* Lines 437-447.  Confidence is in hundredths: int(c*10) is Trunc(10 * c, 100).
ScoreFresh(s) ==
    CASE ToLower(s.Risk) = "critical" -> 90 + Trunc(s.Confidence * 10, 100)
      [] ToLower(s.Risk) = "high" -> 70 + Trunc(s.Confidence * 20, 100)
      [] ToLower(s.Risk) = "medium" -> 40 + Trunc(s.Confidence * 30, 100)
      [] ToLower(s.Risk) = "low" -> 10 + Trunc(s.Confidence * 30, 100)
      [] OTHER -> 0

\* The copy of lines 474-484 with the weight of "high" taken as 10.
ScoreReused_OtherWeight(s) ==
    CASE ToLower(s.Risk) = "critical" -> 90 + Trunc(s.Confidence * 10, 100)
      [] ToLower(s.Risk) = "high" -> 70 + Trunc(s.Confidence * 10, 100)
      [] ToLower(s.Risk) = "medium" -> 40 + Trunc(s.Confidence * 30, 100)
      [] ToLower(s.Risk) = "low" -> 10 + Trunc(s.Confidence * 30, 100)
      [] OTHER -> 0

\* Lines 474-484.
ScoreReused(s) ==
    CASE ToLower(s.Risk) = "critical" -> 90 + Trunc(s.Confidence * 10, 100)
      [] ToLower(s.Risk) = "high" -> 70 + Trunc(s.Confidence * 20, 100)
      [] ToLower(s.Risk) = "medium" -> 40 + Trunc(s.Confidence * 30, 100)
      [] ToLower(s.Risk) = "low" -> 10 + Trunc(s.Confidence * 30, 100)
      [] OTHER -> 0

Attach(rec, s, score) ==
    [rec EXCEPT !.Summary = s.Summary, !.Risk = s.Risk, !.Confidence = s.Confidence,
                !.RootCause = s.RootCause, !.ImmediateActions = s.ImmediateActions,
                !.Investigation = s.Investigation, !.Prevention = s.Prevention,
                !.Score = score]

\* Lines 426-450.
ApplySummaryMap(uiData, summaryMap) ==
    [i \in 1..Len(uiData) |->
        IF uiData[i].Service \in DOMAIN summaryMap
        THEN Attach(uiData[i], summaryMap[uiData[i].Service],
                    ScoreFresh(summaryMap[uiData[i].Service]))
        ELSE uiData[i]]

\* Lines 463-487.
ApplyCachedLLMData(uiData, cached) ==
    [i \in 1..Len(uiData) |->
        IF uiData[i].Service \in DOMAIN cached
        THEN Attach(uiData[i], cached[uiData[i].Service],
                    ScoreReused(cached[uiData[i].Service]))
        ELSE uiData[i]]

\* Lines 421-423.
StoreLLMData(stored, summaryMap) ==
    [svc \in DOMAIN stored \cup DOMAIN summaryMap |->
        IF svc \in DOMAIN summaryMap THEN summaryMap[svc] ELSE stored[svc]]

(***************************************************************************)
(* Orchestrator: one iteration of the loop of main, from the fetch to the  *)
(* sleep that ends it.                                                     *)
(***************************************************************************)
\* Minutes from the start of one iteration to the start of the next: the sleep plus
\* the blocking calls of the iteration (the HTTP calls carry no timeout).  Iterations
\* normally follow each other within the minute; a stalled one takes far longer.
Delays(n) == IF n < MaxStalls THEN {1, CacheTTL, maxLLMUpdateAge} ELSE {1}

Stalled(d) == IF d > 1 THEN 1 ELSE 0

Fingerprint(s) ==
    [AlertCount |-> s.AlertCount, SymptomCount |-> s.SymptomCount,
     MetricCount |-> s.MetricCount, AlertsHash |-> s.AlertsHash,
     SymptomsHash |-> s.SymptomsHash, MetricsHash |-> s.MetricsHash]

InitialState ==
    [AlertCount |-> 0, SymptomCount |-> 0, MetricCount |-> 0, AlertsHash |-> <<>>,
     SymptomsHash |-> <<>>, MetricsHash |-> <<>>, LastLLMUpdate |-> 0]

NoTick ==
    [n |-> 0, fetched |-> FALSE, at |-> 0, correlations |-> <<>>, uiData |-> <<>>,
     current |-> InitialState, last |-> InitialState, called |-> FALSE, err |-> FALSE,
     summaryMap |-> EmptyMap, invoked |-> {}, failed |-> {}, prevCallAt |-> -1,
     goodBefore |-> EmptyMap, storedBefore |-> EmptyMap, expired |-> {},
     raw |-> <<>>, alerts |-> <<>>, obs |-> [symptoms |-> <<>>, metrics |-> <<>>]]

NoCall ==
    [made |-> FALSE, input |-> <<>>, summary |-> EmptyMap, err |-> FALSE,
     invoked |-> {}, cacheBefore |-> EmptyMap]

CurrentState(items, ord1, acc, last) ==
    [AlertCount    |-> Cardinality(DOMAIN items),
     SymptomCount  |-> acc.currentSymptomCount,
     MetricCount   |-> acc.currentMetricCount,
     AlertsHash    |-> HashData([i \in 1..Len(ord1) |-> SimplifiedAlert(items[ord1[i]])]),
     SymptomsHash  |-> HashData(acc.simplifiedSymptoms),
     MetricsHash   |-> HashData(acc.simplifiedMetrics),
     LastLLMUpdate |-> last.LastLLMUpdate]

\* An iteration that publishes only when the summarizer was called.
Outcome_PublishOnCall(acc, currentState, shouldCallLLM, oracle, t) ==
    IF shouldCallLLM
    THEN LET g == GetOrSummarize(CacheCleanupExpired(llmCache, t), acc.correlations, t, oracle)
         IN [cache   |-> g.cache,
             stored  |-> IF g.err THEN lastSuccessfulLLMData
                         ELSE StoreLLMData(lastSuccessfulLLMData, g.summary),
             uiData  |-> IF g.err THEN acc.uiData ELSE ApplySummaryMap(acc.uiData, g.summary),
             state   |-> [currentState EXCEPT !.LastLLMUpdate = t],
             err     |-> g.err,
             summary |-> g.summary,
             invoked |-> g.invoked]
    ELSE [cache   |-> llmCache,
          stored  |-> lastSuccessfulLLMData,
          uiData  |-> currentAPIRisks,
          state   |-> lastState,
          err     |-> FALSE,
          summary |-> EmptyMap,
          invoked |-> {}]

\* Lines 406-488: what the iteration leaves behind, given the decision and the replies.
Outcome(acc, currentState, shouldCallLLM, oracle, t) ==
    IF shouldCallLLM
    THEN LET g == GetOrSummarize(CacheCleanupExpired(llmCache, t), acc.correlations, t, oracle)
         IN [cache   |-> g.cache,
             stored  |-> IF g.err THEN lastSuccessfulLLMData
                         ELSE StoreLLMData(lastSuccessfulLLMData, g.summary),
             uiData  |-> IF g.err THEN acc.uiData ELSE ApplySummaryMap(acc.uiData, g.summary),
             state   |-> [currentState EXCEPT !.LastLLMUpdate = t],
             err     |-> g.err,
             summary |-> g.summary,
             invoked |-> g.invoked]
    ELSE [cache   |-> llmCache,
          stored  |-> lastSuccessfulLLMData,
          uiData  |-> ApplyCachedLLMData(acc.uiData, lastSuccessfulLLMData),
          state   |-> lastState,
          err     |-> FALSE,
          summary |-> EmptyMap,
          invoked |-> {}]

Iteration ==
    /\ ticks < MaxTicks
    /\ \E resp \in FetchResponses, d \in Delays(stalls) :
       \E items \in {TrackerCleanupExpired(
                        UpdateFromAlerts(tracker, FetchAlerts(resp, validServices), now), now)} :
       \E ord1 \in Orders(DOMAIN items), ord2 \in Orders(DOMAIN items) :
       \E o \in Observations(now) :
       \E acc \in {ProcessItems(ord2, items, [k \in ProcessedKeys(items) |-> o], now, {}, EmptyAcc)} :
       \E currentState \in {CurrentState(items, ord1, acc, lastState)} :
       \E shouldCallLLM \in {ShouldCallLLM(acc.correlations, currentState, lastState, now)} :
       \E asked \in {IF shouldCallLLM
                     THEN OracleGroups(CacheCleanupExpired(llmCache, now), acc.correlations, now)
                     ELSE {}} :
       \E reply \in IF asked = {} THEN {ReplyError} ELSE OracleReplies :
       \E oracle \in {[svc \in asked |-> reply]} :
       \E out \in {Outcome(acc, currentState, shouldCallLLM, oracle, now)} :
       \E good \in {{i \in 1..Len(acc.correlations) :
                        /\ shouldCallLLM /\ ~out.err
                        /\ acc.correlations[i].Alert.Service \in DOMAIN out.summary
                        /\ out.summary[acc.correlations[i].Alert.Service] # LLMErrorSummary}} :
       \E fp \in {Fingerprint(currentState)} :
          /\ tracker' = items
          /\ llmCache' = out.cache
          /\ lastSuccessfulLLMData' = out.stored
          /\ lastState' = out.state
          /\ currentAPIRisks' = out.uiData
          /\ lastGood' =
               [svc \in DOMAIN lastGood \cup {acc.uiData[i].Service : i \in good} |->
                  IF \E i \in good : acc.uiData[i].Service = svc
                  THEN LET i == CHOOSE j \in good : acc.uiData[j].Service = svc
                       IN out.summary[acc.correlations[i].Alert.Service]
                  ELSE lastGood[svc]]
          /\ calls' = IF shouldCallLLM THEN (fp :> now) @@ calls ELSE calls
          /\ tick' = [n |-> ticks + 1, fetched |-> TRUE, at |-> now,
                      correlations |-> acc.correlations, uiData |-> acc.uiData,
                      current |-> currentState, last |-> lastState,
                      called |-> shouldCallLLM, err |-> out.err,
                      summaryMap |-> out.summary, invoked |-> out.invoked,
                      failed |-> {svc \in out.invoked : ~oracle[svc].ok},
                      prevCallAt |-> IF fp \in DOMAIN calls THEN calls[fp] ELSE -1,
                      goodBefore |-> lastGood,
                      storedBefore |-> lastSuccessfulLLMData,
                      expired |-> DOMAIN tracker \ DOMAIN items,
                      raw |-> resp, alerts |-> FetchAlerts(resp, validServices),
                      obs |-> o]
          /\ ticks' = ticks + 1
          /\ now' = now + d
          /\ stalls' = stalls + Stalled(d)
    /\ call' = NoCall
    /\ UNCHANGED <<trackerOp, nops>>
    /\ UNCHANGED <<pubVars, probe>>

\* One iteration of the loop of main, the process left aside.
Tick == Iteration /\ UNCHANGED proc

\* A failed fetch after which the empty snapshot is published.
FetchError_Publishes ==
    /\ ticks < MaxTicks
    /\ \E d \in Delays(stalls) : now' = now + d /\ stalls' = stalls + Stalled(d)
    /\ ticks' = ticks + 1
    /\ tick' = [NoTick EXCEPT !.n = ticks + 1, !.at = now, !.last = lastState,
                              !.goodBefore = lastGood,
                              !.storedBefore = lastSuccessfulLLMData]
    /\ call' = NoCall
    /\ currentAPIRisks' = <<>>
    /\ UNCHANGED <<tracker, lastState, lastSuccessfulLLMData, llmCache,
                   lastGood, calls, trackerOp, nops>>
    /\ UNCHANGED <<pubVars, probe>>

\* Lines 169-179: the fetch fails; the iteration sleeps and starts over.
FetchError ==
    /\ ticks < MaxTicks
    /\ \E d \in Delays(stalls) : now' = now + d /\ stalls' = stalls + Stalled(d)
    /\ ticks' = ticks + 1
    /\ tick' = [NoTick EXCEPT !.n = ticks + 1, !.at = now, !.last = lastState,
                              !.goodBefore = lastGood,
                              !.storedBefore = lastSuccessfulLLMData]
    /\ call' = NoCall
    /\ UNCHANGED <<tracker, lastState, lastSuccessfulLLMData, llmCache, currentAPIRisks,
                   lastGood, calls, trackerOp, nops>>
    /\ UNCHANGED <<pubVars, probe>>

TickFetchError == FetchError /\ UNCHANGED proc

\* GetOrSummarize called on its own, with an empty list or with the bundle of the last
\* iteration, on the cache as it is or as CleanupExpired has just left it.
DirectGetOrSummarize ==
    /\ ~call.made
    /\ \E input \in {<<>>, tick.correlations}, reply \in OracleReplies :
       \E cache \in {llmCache, CacheCleanupExpired(llmCache, now)} :
       \E asked \in {OracleGroups(cache, input, now)} :
       \E g \in {GetOrSummarize(cache, input, now, [svc \in asked |-> reply])} :
          /\ llmCache' = g.cache
          /\ call' = [made |-> TRUE, input |-> input, summary |-> g.summary,
                      err |-> g.err, invoked |-> g.invoked, cacheBefore |-> cache]
    /\ UNCHANGED <<now, ticks, stalls, tracker, lastState, lastSuccessfulLLMData,
                   currentAPIRisks, tick, lastGood, calls, trackerOp, nops>>
    /\ UNCHANGED <<pubVars, probe, proc>>

(***************************************************************************)
(* Publisher: pkg/api/api.go.  The stored snapshot behind riskMu, the GET   *)
(* handler, the WebSocket hub and its clients.                              *)
(***************************************************************************)
Clients == {"c1", "c2"}

Readers == {"g1", "g2"}

\* The n-th slice handed to UpdateRisks: n records, so that two slices differ in their
\* data and in their length.
Snap(n) == [i \in 1..n |-> [Service |-> "MyAPI", Score |-> n]]

\* A slice as its reader sees it: the array it points to and its length.
Header(s) == [data |-> s, len |-> Len(s)]

WebSocketMessage(data) == [Type |-> "risks_update", Data |-> data]

\* sync.RWMutex: Lock waits for the writer and for every read holder, RLock for the writer.
LockFree(mu) == ~mu.w /\ mu.r = {}

\* A read lock that does not wait for the writer.
RLockFree_NoWait(mu) == TRUE

RLockFree(mu) == ~mu.w

NoClient == "none"

HubIdle == [pc |-> "select", client |-> NoClient, message |-> WebSocketMessage(<<>>)]

\* A connection as handleWebSocket makes it.  pc is where readPump is, writer where
\* writePump is, conn the network connection; hist is every attempt of the hub to put a
\* message into the send channel, in order, and why readPump or writePump ended; panic
\* is the run-time panic an operation on the send channel has raised.
NewConn ==
    [pc |-> "new", send |-> <<>>, closed |-> FALSE, enq |-> {},
     writer |-> "running", conn |-> "open", hist |-> <<>>, cause |-> "none",
     panic |-> "none"]

\* close(client.send): closing a closed channel panics.
CloseSend(conn) ==
    IF conn.closed THEN [conn EXCEPT !.panic = "close of closed channel"]
    ELSE [conn EXCEPT !.closed = TRUE]

NoGet == [pc |-> "idle", stored |-> 0, returned |-> 0, first |-> <<>>, resp |-> Header(<<>>)]

\* A send whose default branch leaves the channel open.
TrySend_LeaveOpen(conn, message) ==
    IF conn.closed THEN [conn EXCEPT !.panic = "send on closed channel"]
    ELSE IF Len(conn.send) < SendBuffer
    THEN [conn EXCEPT !.send = Append(@, message), !.enq = @ \cup {Len(message.Data)}]
    ELSE conn

\* select { case client.send <- message: default: close(client.send) }; a send case
\* on a closed channel is ready, and panics.
TrySend(conn, message) ==
    IF conn.closed THEN [conn EXCEPT !.panic = "send on closed channel"]
    ELSE IF Len(conn.send) < SendBuffer
    THEN [conn EXCEPT !.send = Append(@, message), !.enq = @ \cup {Len(message.Data)}]
    ELSE CloseSend(conn)

CanTake(conn) == Len(conn.send) < SendBuffer

\* TrySend, with the attempt written down: how the message came (on registration or
\* by broadcast) and whether the channel took it.
Enqueue(conn, message, how) ==
    [TrySend(conn, message) EXCEPT
        !.hist = Append(@, [how |-> how, taken |-> CanTake(conn), Data |-> message.Data])]

\* Lines 268-269: riskMu.Lock().
UpdateRisksLock ==
    /\ upd.pc = "idle" /\ upd.n < MaxUpdates
    /\ LockFree(riskMu)
    /\ riskMu' = [riskMu EXCEPT !.w = TRUE]
    /\ upd' = [upd EXCEPT !.pc = "locked", !.n = @ + 1]
    /\ UNCHANGED <<currentAPIRisks, hub, clients, conns, gets, pushed>>
    /\ UNCHANGED <<orchVars, probe, proc>>

\* Lines 269-270: currentAPIRisks = newRisks; riskMu.Unlock().
UpdateRisksStore ==
    /\ upd.pc = "locked"
    /\ currentAPIRisks' = Snap(upd.n)
    /\ riskMu' = [riskMu EXCEPT !.w = FALSE]
    /\ upd' = [upd EXCEPT !.pc = "send"]
    /\ UNCHANGED <<hub, clients, conns, gets, pushed>>
    /\ UNCHANGED <<orchVars, probe, proc>>

\* The clients whose registration is complete and whose send channel has room.
Listening ==
    {c \in clients : CanTake(conns[c]) /\ ~(hub.pc = "register" /\ hub.client = c)}

\* A push that hands the hub the snapshot of the call before.
UpdateRisksBroadcast_Stale ==
    /\ upd.pc = "send"
    /\ hub.pc = "select"
    /\ hub' = [pc |-> "broadcast", client |-> NoClient,
               message |-> WebSocketMessage(Snap(upd.n - 1))]
    /\ pushed' = Append(pushed, [skipped |-> FALSE, targets |-> Listening,
                                 hub |-> hub.pc])
    /\ upd' = [upd EXCEPT !.pc = "idle", !.returned = @ + 1]
    /\ UNCHANGED <<currentAPIRisks, riskMu, clients, conns, gets>>
    /\ UNCHANGED <<orchVars, probe, proc>>

\* Lines 273-276: the hub is parked in its select and takes the message.
UpdateRisksBroadcast ==
    /\ upd.pc = "send"
    /\ hub.pc = "select"
    /\ hub' = [pc |-> "broadcast", client |-> NoClient,
               message |-> WebSocketMessage(Snap(upd.n))]
    /\ pushed' = Append(pushed, [skipped |-> FALSE, targets |-> Listening,
                                 hub |-> hub.pc])
    /\ upd' = [upd EXCEPT !.pc = "idle", !.returned = @ + 1]
    /\ UNCHANGED <<currentAPIRisks, riskMu, clients, conns, gets>>
    /\ UNCHANGED <<orchVars, probe, proc>>

\* A send without a default branch, which goes on only once the hub is gone.
UpdateRisksSkip_WaitsForHub ==
    /\ upd.pc = "send"
    /\ hub.pc = "stopped"
    /\ pushed' = Append(pushed, [skipped |-> TRUE, targets |-> Listening, hub |-> hub.pc])
    /\ upd' = [upd EXCEPT !.pc = "idle", !.returned = @ + 1]
    /\ UNCHANGED <<currentAPIRisks, riskMu, hub, clients, conns, gets>>
    /\ UNCHANGED <<orchVars, probe, proc>>

\* Lines 273-278: nobody receives on the unbuffered channel; the default branch.
UpdateRisksSkip ==
    /\ upd.pc = "send"
    /\ hub.pc # "select"
    /\ pushed' = Append(pushed, [skipped |-> TRUE, targets |-> Listening, hub |-> hub.pc])
    /\ upd' = [upd EXCEPT !.pc = "idle", !.returned = @ + 1]
    /\ UNCHANGED <<currentAPIRisks, riskMu, hub, clients, conns, gets>>
    /\ UNCHANGED <<orchVars, probe, proc>>

\* Lines 231-232: a request arrives and takes the read lock.
GetRLock(g) ==
    /\ gets[g].pc = "idle"
    /\ RLockFree(riskMu)
    /\ riskMu' = [riskMu EXCEPT !.r = @ \cup {g}]
    /\ gets' = [gets EXCEPT ![g] = [@ EXCEPT !.pc = "encode", !.stored = upd.n,
                                             !.returned = upd.returned]]
    /\ UNCHANGED <<currentAPIRisks, hub, clients, conns, upd, pushed>>
    /\ UNCHANGED <<orchVars, probe, proc>>

\* Line 235: Encode(currentAPIRisks) reads the slice: first the array it points to.
GetEncodeData(g) ==
    /\ gets[g].pc = "encode"
    /\ gets' = [gets EXCEPT ![g] = [@ EXCEPT !.pc = "length", !.first = currentAPIRisks]]
    /\ UNCHANGED <<currentAPIRisks, riskMu, hub, clients, conns, upd, pushed>>
    /\ UNCHANGED <<orchVars, probe, proc>>

\* Lines 233-235: then its length; the response is written and the lock released.
GetEncodeLen(g) ==
    /\ gets[g].pc = "length"
    /\ gets' = [gets EXCEPT ![g] = [@ EXCEPT !.pc = "done",
                                             !.resp = [data |-> gets[g].first,
                                                       len |-> Len(currentAPIRisks)]]]
    /\ riskMu' = [riskMu EXCEPT !.r = @ \ {g}]
    /\ UNCHANGED <<currentAPIRisks, hub, clients, conns, upd, pushed>>
    /\ UNCHANGED <<orchVars, probe, proc>>

\* Lines 209-218 and 96-99: handleWebSocket hands the client to the parked hub, which
\* puts it into clients; the pumps start.
HubRegister(c) ==
    /\ hub.pc = "select"
    /\ conns[c].pc = "new"
    /\ proc.http = "serving"
    /\ hub' = [hub EXCEPT !.pc = "register", !.client = c]
    /\ clients' = clients \cup {c}
    /\ conns' = [conns EXCEPT ![c].pc = "connected"]
    /\ UNCHANGED <<currentAPIRisks, riskMu, upd, gets, pushed>>
    /\ UNCHANGED <<orchVars, probe, proc>>

\* A register case that puts the client into clients and sends it nothing.
HubRegisterSend_NoSnapshot ==
    /\ hub.pc = "register"
    /\ RLockFree(riskMu)
    /\ hub' = HubIdle
    /\ UNCHANGED <<currentAPIRisks, riskMu, clients, conns, upd, gets, pushed>>
    /\ UNCHANGED <<orchVars, probe, proc>>

\* Lines 102-113: the hub copies the snapshot under the read lock and sends it.
HubRegisterSend ==
    /\ hub.pc = "register"
    /\ RLockFree(riskMu)
    /\ conns' = [conns EXCEPT ![hub.client] =
                     Enqueue(@, WebSocketMessage(currentAPIRisks), "register")]
    /\ clients' = IF CanTake(conns[hub.client]) THEN clients ELSE clients \ {hub.client}
    /\ hub' = HubIdle
    /\ UNCHANGED <<currentAPIRisks, riskMu, upd, gets, pushed>>
    /\ UNCHANGED <<orchVars, probe, proc>>

\* Lines 178-197: readPump's read fails; it will hand the client to hub.unregister.
ClientDisconnect(c) ==
    /\ conns[c].pc = "connected"
    /\ conns' = [conns EXCEPT ![c].pc = "leaving",
                              ![c].cause = IF @ = "none" THEN "read" ELSE @]
    /\ UNCHANGED <<currentAPIRisks, riskMu, hub, clients, upd, gets, pushed>>
    /\ UNCHANGED <<orchVars, probe, proc>>

\* Lines 180 and 115: the parked hub takes the client from hub.unregister.
HubUnregister(c) ==
    /\ hub.pc = "select"
    /\ conns[c].pc = "leaving"
    /\ hub' = [hub EXCEPT !.pc = "unregister", !.client = c]
    /\ conns' = [conns EXCEPT ![c].pc = "gone", ![c].conn = "closed"]
    /\ UNCHANGED <<currentAPIRisks, riskMu, clients, upd, gets, pushed>>
    /\ UNCHANGED <<orchVars, probe, proc>>

\* An unregister case that leaves the client set as it is.
HubUnregisterDone_Keep ==
    /\ hub.pc = "unregister"
    /\ hub' = HubIdle
    /\ UNCHANGED <<currentAPIRisks, riskMu, clients, conns, upd, gets, pushed>>
    /\ UNCHANGED <<orchVars, probe, proc>>

\* Lines 116-122: the client is deleted and its channel closed, if it is still there.
HubUnregisterDone ==
    /\ hub.pc = "unregister"
    /\ clients' = clients \ {hub.client}
    /\ conns' = IF hub.client \in clients
                THEN [conns EXCEPT ![hub.client] = CloseSend(@)]
                ELSE conns
    /\ hub' = HubIdle
    /\ UNCHANGED <<currentAPIRisks, riskMu, upd, gets, pushed>>
    /\ UNCHANGED <<orchVars, probe, proc>>

\* A broadcast that closes the channel of a client that is full and keeps the client.
HubBroadcast_KeepsClient ==
    /\ hub.pc = "broadcast"
    /\ conns' = [c \in Clients |->
                    IF c \in clients THEN Enqueue(conns[c], hub.message, "broadcast")
                    ELSE conns[c]]
    /\ clients' = clients
    /\ hub' = HubIdle
    /\ UNCHANGED <<currentAPIRisks, riskMu, upd, gets, pushed>>
    /\ UNCHANGED <<orchVars, probe, proc>>

\* Lines 124-135: the message goes to every client; one whose channel is full is closed
\* and deleted.
HubBroadcast ==
    /\ hub.pc = "broadcast"
    /\ conns' = [c \in Clients |->
                    IF c \in clients THEN Enqueue(conns[c], hub.message, "broadcast")
                    ELSE conns[c]]
    /\ clients' = {c \in clients : CanTake(conns[c])}
    /\ hub' = HubIdle
    /\ UNCHANGED <<currentAPIRisks, riskMu, upd, gets, pushed>>
    /\ UNCHANGED <<orchVars, probe, proc>>

\* Lines 151-164: writePump takes the next message from the send channel.
ClientWrite(c) ==
    /\ conns[c].writer = "running"
    /\ conns[c].send # <<>>
    /\ conns' = [conns EXCEPT ![c].send = Tail(@)]
    /\ UNCHANGED <<currentAPIRisks, riskMu, hub, clients, upd, gets, pushed>>
    /\ UNCHANGED <<orchVars, probe, proc>>

\* Lines 181-184 and 188-196: no pong arrives within the read deadline of 60 seconds;
\* ReadMessage returns the timeout and readPump leaves its loop.
ClientPongTimeout(c) ==
    /\ conns[c].pc = "connected"
    /\ conns[c].conn = "open"
    /\ conns' = [conns EXCEPT ![c].pc = "leaving",
                              ![c].cause = IF @ = "none" THEN "pong" ELSE @]
    /\ UNCHANGED <<currentAPIRisks, riskMu, hub, clients, upd, gets, pushed>>
    /\ UNCHANGED <<orchVars, probe, proc>>

\* Lines 146-149 and 152-170: WriteJSON or the ping fails, or its 10 second deadline
\* passes; writePump returns and its deferred call closes the connection.
ClientWriteFail(c) ==
    /\ conns[c].pc \in {"connected", "leaving", "gone"}
    /\ conns[c].writer = "running"
    /\ conns' = [conns EXCEPT ![c].writer = "stopped", ![c].conn = "closed",
                              ![c].cause = IF @ = "none" THEN "write" ELSE @]
    /\ UNCHANGED <<currentAPIRisks, riskMu, hub, clients, upd, gets, pushed>>
    /\ UNCHANGED <<orchVars, probe, proc>>

\* Lines 153-158: the send channel is closed and empty; writePump writes the close
\* message and returns, and its deferred call closes the connection.
ClientWriteClosed(c) ==
    /\ conns[c].writer = "running"
    /\ conns[c].send = <<>> /\ conns[c].closed
    /\ conns' = [conns EXCEPT ![c].writer = "stopped", ![c].conn = "closed"]
    /\ UNCHANGED <<currentAPIRisks, riskMu, hub, clients, upd, gets, pushed>>
    /\ UNCHANGED <<orchVars, probe, proc>>

\* Lines 188-196: ReadMessage on a connection that writePump has closed fails.
ClientReadClosed(c) ==
    /\ conns[c].pc = "connected"
    /\ conns[c].conn = "closed"
    /\ conns' = [conns EXCEPT ![c].pc = "leaving"]
    /\ UNCHANGED <<currentAPIRisks, riskMu, hub, clients, upd, gets, pushed>>
    /\ UNCHANGED <<orchVars, probe, proc>>

\* Lines 254-260: StopServer shuts the HTTP server down, waiting up to 5 seconds;
\* Shutdown leaves hijacked connections, the WebSocket ones, alone.
StopServerShutdown ==
    /\ proc.stopper = "idle"
    /\ proc' = [proc EXCEPT !.stopper = "stophub", !.http = "shutdown"]
    /\ UNCHANGED <<orchVars, pubVars, currentAPIRisks, probe>>

\* Lines 262-264 and 140-142: wsHub.Stop() closes the stop channel.
StopServerStopHub ==
    /\ proc.stopper = "stophub"
    /\ proc' = [proc EXCEPT !.stopper = "done", !.stop = TRUE]
    /\ UNCHANGED <<orchVars, pubVars, currentAPIRisks, probe>>

\* Lines 93-95: the parked hub finds the stop channel closed and Run returns.
HubStop ==
    /\ hub.pc = "select"
    /\ proc.stop
    /\ hub' = [hub EXCEPT !.pc = "stopped"]
    /\ UNCHANGED <<currentAPIRisks, riskMu, clients, conns, upd, gets, pushed>>
    /\ UNCHANGED <<orchVars, probe, proc>>

NoExit == -1

\* The process as main finds it: the profile directory there or not, no signal yet, the
\* HTTP server and the hub started (lines 58-99).
InitProc ==
    [main |-> "load", dir |-> "present", sig |-> FALSE, ctx |-> FALSE, seen |-> FALSE,
     watcher |-> "wait", http |-> "serving", stop |-> FALSE, stopper |-> "idle",
     exit |-> NoExit]

NoOp == [op |-> "init", removed |-> {}, alerts |-> <<>>, before |-> EmptyMap]

(***************************************************************************)
(* Functions called on their own, on inputs the loop of main does not      *)
(* produce with the profiles above.                                        *)
(***************************************************************************)
NoProbe == [fn |-> "none", in |-> <<>>, out |-> <<>>]

\* The operators of SERVICE_CONFIGURATION.md, and one that is none of them.
MetricOperators == {">", "<", ">=", "<=", "==", "!=", "=~"}

MetricChecks ==
    {[Name |-> "Check", Operator |-> op, Threshold |-> th] :
        op \in MetricOperators, th \in {0, 1}}

QueryResponses ==
    {QueryFailed, QueryEmpty, QueryGarbage, QueryValue(0), QueryValue(1), QueryValue(2)}

\* EvaluateMetricChecks for one service, every check with its own query response.
ProbeEvaluateMetricChecks ==
    /\ probe = NoProbe
    /\ \E k \in 1..MaxChecks :
       \E checks \in [1..k -> MetricChecks], responses \in [1..k -> QueryResponses] :
          probe' = [fn  |-> "EvaluateMetricChecks",
                    in  |-> [checks |-> checks, responses |-> responses],
                    out |-> EvaluateMetricChecks("MyAPI", checks, responses)]
    /\ UNCHANGED <<orchVars, pubVars, currentAPIRisks, proc>>

\* The risk strings a reply can carry: the five of the prompt and of the error
\* placeholder, other spellings (the fallback parser of summarizer.go 251 matches
\* without regard to case and keeps the text as written), and other words.
ScoreRisks ==
    {"Critical", "High", "Medium", "Low", "Unknown", "critical", "HIGH", "Severe", ""}

\* Confidences in hundredths, within [0,1].
ScoreConfidences == {0, 5, 29, 30, 50, 85, 99, 100}

\* The score computed by each of the two copies of the switch for one verdict.
ProbeScore ==
    /\ probe = NoProbe
    /\ \E r \in ScoreRisks, c \in ScoreConfidences :
       \E v \in {[ZeroSummary EXCEPT !.Risk = r, !.Confidence = c]} :
          probe' = [fn  |-> "Score",
                    in  |-> v,
                    out |-> [fresh |-> ScoreFresh(v), reused |-> ScoreReused(v)]]
    /\ UNCHANGED <<orchVars, pubVars, currentAPIRisks, proc>>

\* The text of a configuration file, cut where the two regular expressions of
\* expandEnvironmentVariables cut it: plain text, a ${...} with the text between the
\* braces (itself cut at ":-"), and a $NAME.
Lit(text) == [kind |-> "lit", text |-> text, inner |-> <<>>]
Brace(inner) == [kind |-> "brace", text |-> "", inner |-> inner]
Dollar(name) == [kind |-> "dollar", text |-> "", inner |-> <<name>>]

\* os.Getenv: the value of the variable of that exact name, "" when there is none.
Getenv(env, name) == IF name \in DOMAIN env THEN env[name] ELSE ""

\* Lines 178-185, for one match of \$\{([^}]+)\}: the variable name is everything
\* between the braces.
ExpandBrace(env, t) ==
    IF t.kind = "brace" /\ Getenv(env, t.inner) # ""
    THEN Lit(Getenv(env, t.inner))
    ELSE t

\* Lines 188-195, for one match of \$([A-Za-z_][A-Za-z0-9_]*).
ExpandDollar(env, t) ==
    IF t.kind = "dollar" /\ Getenv(env, t.inner) # ""
    THEN Lit(Getenv(env, t.inner))
    ELSE t

\* Lines 176-198: the first replacement over the whole text, then the second.
expandEnvironmentVariables(env, content) ==
    [i \in DOMAIN content |-> ExpandDollar(env, ExpandBrace(env, content[i]))]

MaxTokens == 2

\* The process environment: FOO unset, set to the empty string, set to a value;
\* UNSET is never set.
Environments ==
    { [n \in {} |-> ""], [n \in {<<"FOO">>} |-> ""], [n \in {<<"FOO">>} |-> "value"] }

ContentTokens ==
    { Lit("index_pattern: "), Brace(<<"FOO">>), Brace(<<"FOO", ":-", "bar">>),
      Brace(<<"UNSET">>), Brace(<<"UNSET", ":-", "bar">>), Dollar("FOO") }

ProbeExpand ==
    /\ probe = NoProbe
    /\ \E env \in Environments, k \in 1..MaxTokens :
       \E content \in [1..k -> ContentTokens] :
          probe' = [fn  |-> "expandEnvironmentVariables",
                    in  |-> [env |-> env, content |-> content],
                    out |-> expandEnvironmentVariables(env, content)]
    /\ UNCHANGED <<orchVars, pubVars, currentAPIRisks, proc>>

\* A file of the profile directory: whether it can be read, whether its text is YAML
\* that decodes into a ServiceProfile, and the decoded fields.
FileOf(name, description, regexes, metrics) ==
    [readable |-> TRUE, yaml |-> TRUE,
     profile |-> [Name |-> name, Description |-> description, Version |-> "",
                  AlertPattern |-> "",
                  DataSources |-> [LogFile |-> ""],
                  LogFile |-> "", Elasticsearch |-> [ScanLimit |-> 0],
                  LogPatterns |-> [i \in DOMAIN regexes |-> [Regex |-> regexes[i]]],
                  Metrics |-> metrics]]

\* regexp.Compile: "(" stands for a pattern that does not compile.
Compiles(regex) == regex # "("

\* Lines 201-239, for the fields kept here.
migrateLegacyConfig(profile, serviceName) ==
    [profile EXCEPT
        !.DataSources.LogFile = IF profile.LogFile # "" /\ @ = "" THEN profile.LogFile ELSE @,
        !.Name = IF @ = "" THEN serviceName ELSE @,
        !.AlertPattern = IF @ = "" THEN serviceName ELSE @]

\* Lines 242-272: TRUE when the error returned is nil.
validateServiceProfile(profile, serviceName) ==
    /\ ~(profile.Name = "" /\ serviceName = "")
    /\ \A i \in DOMAIN profile.LogPatterns :
          profile.LogPatterns[i].Regex # "" /\ Compiles(profile.LogPatterns[i].Regex)
    /\ \A i \in DOMAIN profile.Metrics :
          profile.Metrics[i].Name # "" /\ profile.Metrics[i].QueryTpl # ""

\* Lines 275-303, for the fields kept here.
applyDefaults(profile) ==
    [profile EXCEPT !.Version = IF @ = "" THEN "1.0" ELSE @]

\* The loop of lines 107-153 with a file that fails to load ending the loop.
RECURSIVE LoadFiles_StopAtFailure(_, _, _)
LoadFiles_StopAtFailure(files, services, loaded) ==
    IF files = <<>> THEN loaded
    ELSE LET file == Head(files)
             service == Head(services)
             migrated == migrateLegacyConfig(file.profile, service)
             profile == applyDefaults(migrated)
             serviceName == IF profile.Name = "" THEN service ELSE profile.Name
         IN IF ~file.readable \/ ~file.yaml
               \/ ~validateServiceProfile(migrated, service)
               \/ serviceName \in DOMAIN loaded
            THEN loaded
            ELSE LoadFiles_StopAtFailure(
                     Tail(files), Tail(services),
                     [k \in DOMAIN loaded \cup {serviceName} |->
                         IF k = serviceName THEN profile ELSE loaded[k]])

\* The loop of lines 107-153 over the files in the order of the listing; services are
\* the file names without their extension.
RECURSIVE LoadFiles(_, _, _)
LoadFiles(files, services, loaded) ==
    IF files = <<>> THEN loaded
    ELSE LET file == Head(files)
             service == Head(services)
             migrated == migrateLegacyConfig(file.profile, service)
             profile == applyDefaults(migrated)
             serviceName == IF profile.Name = "" THEN service ELSE profile.Name
         IN IF ~file.readable \/ ~file.yaml
               \/ ~validateServiceProfile(migrated, service)
               \/ serviceName \in DOMAIN loaded
            THEN LoadFiles(Tail(files), Tail(services), loaded)
            ELSE LoadFiles(Tail(files), Tail(services),
                           [k \in DOMAIN loaded \cup {serviceName} |->
                               IF k = serviceName THEN profile ELSE loaded[k]])

\* Lines 91-156: the table and the error returned; the patterns handed to Glob are
\* well formed, so neither Glob fails.
LoadServiceProfiles(files, services) ==
    [profiles |-> LoadFiles(files, services, EmptyMap), err |-> FALSE]

MaxFiles == 3

\* The listing of the directory, *.yml before *.yaml: a.yml, b.yml, a.yaml, c.yaml.
FileServices == <<"a", "b", "a", "c">>

OkMetric == [Name |-> "Availability", QueryTpl |-> "up"]

\* What a file of the directory can hold.
FileContents ==
    { FileOf("MyAPI", "first", <<"ERROR">>, <<OkMetric>>),
      FileOf("MyAPI", "second", <<>>, <<>>),
      FileOf("node", "", <<"ERROR">>, <<>>),
      FileOf("", "unnamed", <<>>, <<OkMetric>>),
      FileOf("a", "named as a file", <<>>, <<>>),
      [FileOf("", "", <<>>, <<>>) EXCEPT !.readable = FALSE],
      [FileOf("", "", <<>>, <<>>) EXCEPT !.yaml = FALSE],
      FileOf("MyAPI", "no regex", <<"ERROR", "">>, <<>>),
      FileOf("node", "bad regex", <<"(">>, <<>>),
      FileOf("MyAPI", "no query", <<>>, <<[Name |-> "Availability", QueryTpl |-> ""]>>),
      FileOf("node", "no metric name", <<>>, <<[Name |-> "", QueryTpl |-> "up"]>>) }

ProbeLoad ==
    /\ probe = NoProbe
    /\ \E k \in 1..MaxFiles :
       \E files \in [1..k -> FileContents] :
          probe' = [fn  |-> "LoadServiceProfiles",
                    in  |-> [files |-> files, services |-> SubSeq(FileServices, 1, k)],
                    out |-> LoadServiceProfiles(files, SubSeq(FileServices, 1, k))]
    /\ UNCHANGED <<orchVars, pubVars, currentAPIRisks, proc>>

\* The alert lists handed to the tracker when it is driven on its own: two services on
\* two instances, one service on two instances, two services on one instance.
TrackerAlerts ==
    { FetchAlerts(<< RawAlert("MyAPI", "host1", "firing") >>, validServices),
      FetchAlerts(<< RawAlert("node", "host2", "firing") >>, validServices),
      FetchAlerts(<< RawAlert("MyAPI", "host1", "firing"),
                     RawAlert("node", "host2", "firing") >>, validServices),
      FetchAlerts(<< RawAlert("MyAPI", "host1", "firing"),
                     RawAlert("MyAPI", "host2", "firing") >>, validServices),
      FetchAlerts(<< RawAlert("MyAPI", "host1", "firing"),
                     RawAlert("node", "host1", "firing") >>, validServices) }

TrackerUpdate ==
    /\ nops < MaxOps
    /\ \E alerts \in TrackerAlerts :
          /\ tracker' = UpdateFromAlerts(tracker, alerts, now)
          /\ trackerOp' = [op |-> "update", removed |-> {}, alerts |-> alerts,
                           before |-> tracker]
    /\ nops' = nops + 1
    /\ UNCHANGED <<now, ticks, stalls, lastState, lastSuccessfulLLMData, llmCache,
                   currentAPIRisks, tick, lastGood, calls, call>>
    /\ UNCHANGED <<pubVars, probe, proc>>

TrackerCleanup ==
    /\ nops < MaxOps
    /\ tracker' = TrackerCleanupExpired(tracker, now)
    /\ trackerOp' = [op |-> "cleanup", removed |-> DOMAIN tracker \ DOMAIN tracker',
                     alerts |-> <<>>, before |-> tracker]
    /\ nops' = nops + 1
    /\ UNCHANGED <<now, ticks, stalls, lastState, lastSuccessfulLLMData, llmCache,
                   currentAPIRisks, tick, lastGood, calls, call>>
    /\ UNCHANGED <<pubVars, probe, proc>>

TrackerTimePasses ==
    /\ nops < MaxOps
    /\ \E d \in {1, TrackerTTL} : now' = now + d
    /\ trackerOp' = [op |-> "time", removed |-> {}, alerts |-> <<>>, before |-> tracker]
    /\ nops' = nops + 1
    /\ UNCHANGED <<ticks, stalls, tracker, lastState, lastSuccessfulLLMData, llmCache,
                   currentAPIRisks, tick, lastGood, calls, call>>
    /\ UNCHANGED <<pubVars, probe, proc>>

\* The lists a log scan can return for one content: the matcher copies its map of
\* matches into a slice in the order the range statement enumerates it (filter.go
\* 129-133).
ScanOrders(o) ==
    {[o EXCEPT !.symptoms = [i \in DOMAIN o.symptoms |-> o.symptoms[p[i]]]] :
        p \in Orders(DOMAIN o.symptoms)}

\* The fingerprint main computes for tracked items and observations (lines 194-381), the
\* tracker enumerated in the order ord1 for the alert hash and ord2 for the loop.
FingerprintOf(items, ord1, ord2, o) ==
    CurrentState(items, ord1,
                 ProcessItems(ord2, items, [k \in ProcessedKeys(items) |-> o], 0, {},
                              EmptyAcc),
                 InitialState)

\* The fingerprints of two iterations over the same tracked items and the same scanned
\* content, each with its own enumeration orders.
ProbeFingerprint ==
    /\ probe = NoProbe
    /\ \E alerts \in TrackerAlerts, o \in Observations(0) :
       \E items \in {UpdateFromAlerts(EmptyMap, alerts, 0)} :
       \E a1 \in Orders(DOMAIN items), a2 \in Orders(DOMAIN items), oa \in ScanOrders(o),
          b1 \in Orders(DOMAIN items), b2 \in Orders(DOMAIN items), ob \in ScanOrders(o) :
          probe' = [fn  |-> "fingerprint",
                    in  |-> [items |-> items, first |-> <<a1, a2, oa>>,
                             second |-> <<b1, b2, ob>>],
                    out |-> [first |-> FingerprintOf(items, a1, a2, oa),
                             second |-> FingerprintOf(items, b1, b2, ob)]]
    /\ UNCHANGED <<orchVars, pubVars, currentAPIRisks, proc>>

\* The alert lists of TrackerAlerts, and one with an alert that has no profile, as an
\* alert source without a list of valid services returns it.
CorrelateAlerts ==
    TrackerAlerts \cup
        { FetchAlerts(<< RawAlert("Ghost", "host1", "firing"),
                         RawAlert("MyAPI", "host2", "firing") >>, {}) }

\* The records main builds from the items these alerts leave in the tracker.
ProbeCorrelate ==
    /\ probe = NoProbe
    /\ \E alerts \in CorrelateAlerts, o \in Observations(0) :
       \E items \in {UpdateFromAlerts(EmptyMap, alerts, 0)} :
       \E order \in Orders(DOMAIN items) :
          probe' = [fn  |-> "correlate",
                    in  |-> [items |-> items, order |-> order],
                    out |-> ProcessItems(order, items, [k \in ProcessedKeys(items) |-> o],
                                         0, {}, EmptyAcc).uiData]
    /\ UNCHANGED <<orchVars, pubVars, currentAPIRisks, proc>>

(***************************************************************************)
(* Log scan: pkg/logs ScanLogsAndMatchSymptoms.  A document is kept as the *)
(* service extractServiceFromLog resolves it to, its timestamp, and the    *)
(* labels of the patterns whose regex matches its message.                 *)
(***************************************************************************)
MaxDocs == 2

PatternLabels == <<"critical_error", "kernel_error">>

LogDocs ==
    {[Service |-> svc, Timestamp |-> ts, Matches |-> m] :
        svc \in {"MyAPI", "node", "unknown"}, ts \in {1, 2},
        m \in {{"critical_error"}, {"critical_error", "kernel_error"}}}

\* Lines 109-126: the loop over the compiled patterns for one document.
RECURSIVE MatchPatterns(_, _, _)
MatchPatterns(matches, log, compiled) ==
    IF compiled = <<>> THEN matches
    ELSE LET label == Head(compiled)
             key == <<log.Service, label>>
             next == IF label \notin log.Matches THEN matches
                     ELSE IF key \notin DOMAIN matches
                     THEN (key :> Sym(log.Service, label, 1, log.Timestamp)) @@ matches
                     ELSE [matches EXCEPT
                              ![key].Count = @ + 1,
                              ![key].LastSeen = IF log.Timestamp > @ THEN log.Timestamp ELSE @]
         IN MatchPatterns(next, log, Tail(compiled))

\* Lines 106-127: the loop over the documents.
RECURSIVE ScanMatches(_, _, _)
ScanMatches(matches, logs, compiled) ==
    IF logs = <<>> THEN matches
    ELSE ScanMatches(MatchPatterns(matches, Head(logs), compiled), Tail(logs), compiled)

\* Lines 129-135: the map copied to a slice, in the order range enumerates it.
ScanLogsAndMatchSymptoms(logs, compiled, order) ==
    LET matches == ScanMatches(EmptyMap, logs, compiled)
    IN [i \in 1..Len(order) |-> matches[order[i]]]

\* One scan of up to MaxDocs documents, and the symptoms main keeps of it for MyAPI.
ProbeScan ==
    /\ probe = NoProbe
    /\ \E k \in 1..MaxDocs :
       \E logs \in [1..k -> LogDocs] :
       \E order \in Orders(DOMAIN ScanMatches(EmptyMap, logs, PatternLabels)) :
       \E symptoms \in {ScanLogsAndMatchSymptoms(logs, PatternLabels, order)} :
          probe' = [fn  |-> "scan",
                    in  |-> [logs |-> logs, service |-> "MyAPI"],
                    out |-> [symptoms |-> symptoms,
                             serviceSymptoms |-> FilterSymptoms(symptoms, "MyAPI")]]
    /\ UNCHANGED <<orchVars, pubVars, currentAPIRisks, proc>>

\* Lines 206-261 of filter.go: the scan of a file, line by line, up to limit lines when
\* limit is positive; a match is stamped with the time of the scan.
RECURSIVE ScanFile(_, _, _, _, _, _)
ScanFile(matches, lines, linesScanned, limit, compiled, t) ==
    IF lines = <<>> \/ (limit > 0 /\ linesScanned + 1 > limit) THEN matches
    ELSE ScanFile(MatchPatterns(matches, [Head(lines) EXCEPT !.Timestamp = t], compiled),
                  Tail(lines), linesScanned + 1, limit, compiled, t)

\* Where a profile file declares its log file.
Declarations == {"nowhere", "log_file", "data_sources.log_file"}

ScanLimits == {0, 1}

\* The profile as LoadServiceProfiles stores it, for a file with that declaration and
\* that elasticsearch.scan_limit.
DeclaredProfile(declared, limit) ==
    LET file == FileOf("MyAPI", "", <<>>, <<>>).profile
    IN applyDefaults(migrateLegacyConfig(
           [file EXCEPT
               !.LogFile = IF declared = "log_file" THEN "/var/log/myapi.log" ELSE "",
               !.DataSources.LogFile =
                   IF declared = "data_sources.log_file" THEN "/var/log/myapi.log" ELSE "",
               !.Elasticsearch.ScanLimit = limit], "MyAPI"))

\* Lines 250-283 of main.go with a log store whose query fails: the matches of the scan
\* main falls back to, none when it does not.
FallbackMatches(profile, lines, t) ==
    LET scanLimit == IF profile.Elasticsearch.ScanLimit = 0 THEN 500
                     ELSE profile.Elasticsearch.ScanLimit
    IN IF profile.LogFile # ""
       THEN ScanFile(EmptyMap, lines, 0, scanLimit, PatternLabels, t)
       ELSE EmptyMap

\* The symptoms of one service in an iteration whose log-store query failed, the log
\* file holding up to MaxDocs lines.
ProbeFallback ==
    /\ probe = NoProbe
    /\ \E declared \in Declarations, limit \in ScanLimits, k \in 1..MaxDocs :
       \E lines \in [1..k -> {d \in LogDocs : d.Timestamp = 1}] :
       \E matches \in {FallbackMatches(DeclaredProfile(declared, limit), lines, 2)} :
       \E order \in Orders(DOMAIN matches) :
          probe' = [fn  |-> "fallback",
                    in  |-> [declared |-> declared, limit |-> limit, lines |-> lines],
                    out |-> FilterSymptoms([i \in 1..Len(order) |-> matches[order[i]]],
                                           "MyAPI")]
    /\ UNCHANGED <<orchVars, pubVars, currentAPIRisks, proc>>

(***************************************************************************)
(* The process: main from LoadServiceProfiles on, and the goroutine that   *)
(* waits for SIGINT or SIGTERM.  The process is over (exit is set) when    *)
(* main returns or os.Exit is called.                                      *)
(***************************************************************************)
MaxLoops == 2

Alive == proc.exit = NoExit

\* Lines 125-139: the profiles are loaded; main returns if the call fails.  A directory
\* that is not there gives Glob nothing to list.
MainLoad ==
    /\ Alive /\ proc.main = "load"
    /\ \E dir \in {"present", "missing"} :
       \E loaded \in {IF dir = "missing" THEN LoadServiceProfiles(<<>>, <<>>)
                       ELSE [profiles |-> profiles, err |-> FALSE]} :
          proc' = IF loaded.err
                  THEN [proc EXCEPT !.dir = dir, !.main = "returned", !.exit = 0]
                  ELSE [proc EXCEPT !.dir = dir, !.main = "check"]
    /\ UNCHANGED <<orchVars, pubVars, currentAPIRisks, probe>>

\* A check at the top of the loop that does not look at the context.
MainCheckGo_IgnoresContext ==
    /\ Alive /\ proc.main = "check"
    /\ proc.dir = "present" /\ ticks < MaxLoops
    /\ proc' = [proc EXCEPT !.main = "fetch"]
    /\ UNCHANGED <<orchVars, pubVars, currentAPIRisks, probe>>

\* Lines 161-166, default branch: the context is not cancelled, the iteration begins.
\* The iterations of a process that loaded no profile at all are not followed.
MainCheckGo ==
    /\ Alive /\ proc.main = "check"
    /\ ~proc.ctx
    /\ proc.dir = "present" /\ ticks < MaxLoops
    /\ proc' = [proc EXCEPT !.main = "fetch"]
    /\ UNCHANGED <<orchVars, pubVars, currentAPIRisks, probe>>

\* Lines 161-165: the context is cancelled; main returns and the process ends.
MainCheckCancelled ==
    /\ Alive /\ proc.main = "check"
    /\ proc.ctx
    /\ proc' = [proc EXCEPT !.main = "returned", !.seen = TRUE, !.exit = 0]
    /\ UNCHANGED <<orchVars, pubVars, currentAPIRisks, probe>>

\* Lines 168-491: the fetch succeeds and the iteration runs up to UpdateRisks.  The
\* process is followed at its ordinary pace, one iteration a minute; iterations that
\* stall are followed by Tick.
MainIteration ==
    /\ Alive /\ proc.main = "fetch"
    /\ Iteration
    /\ now' = now + 1
    /\ proc' = [proc EXCEPT !.main = "sleep"]

\* Lines 169-171: the fetch fails.
MainFetchError ==
    /\ Alive /\ proc.main = "fetch"
    /\ FetchError
    /\ now' = now + 1
    /\ proc' = [proc EXCEPT !.main = "errsleep"]

\* Lines 176-177 and 497: the timer of 30 seconds fires.
MainSleepDone ==
    /\ Alive /\ proc.main \in {"sleep", "errsleep"}
    /\ proc' = [proc EXCEPT !.main = "check"]
    /\ UNCHANGED <<orchVars, pubVars, currentAPIRisks, probe>>

\* Lines 174-175 and 495-496: the context is cancelled while main sleeps; main returns.
MainSleepCancelled ==
    /\ Alive /\ proc.main \in {"sleep", "errsleep"}
    /\ proc.ctx
    /\ proc' = [proc EXCEPT !.main = "returned", !.seen = TRUE, !.exit = 0]
    /\ UNCHANGED <<orchVars, pubVars, currentAPIRisks, probe>>

\* Lines 92-93: SIGINT or SIGTERM arrives on sigChan.
Signal ==
    /\ Alive /\ ~proc.sig
    /\ proc' = [proc EXCEPT !.sig = TRUE]
    /\ UNCHANGED <<orchVars, pubVars, currentAPIRisks, probe>>

\* Lines 103-105: the goroutine takes the signal and cancels the context.
WatcherCancel ==
    /\ Alive /\ proc.watcher = "wait" /\ proc.sig
    /\ proc' = [proc EXCEPT !.watcher = "shutdown", !.ctx = TRUE]
    /\ UNCHANGED <<orchVars, pubVars, currentAPIRisks, probe>>

\* Lines 108-116: server.Shutdown with a timeout of 5 seconds.
WatcherShutdown ==
    /\ Alive /\ proc.watcher = "shutdown"
    /\ proc' = [proc EXCEPT !.watcher = "exit", !.http = "shutdown"]
    /\ UNCHANGED <<orchVars, pubVars, currentAPIRisks, probe>>

\* Line 117: os.Exit(0).
WatcherExit ==
    /\ Alive /\ proc.watcher = "exit"
    /\ proc' = [proc EXCEPT !.watcher = "done", !.exit = 0]
    /\ UNCHANGED <<orchVars, pubVars, currentAPIRisks, probe>>

Init ==
    /\ now = 0
    /\ ticks = 0
    /\ stalls = 0
    /\ tracker = EmptyMap
    /\ lastState = InitialState
    /\ lastSuccessfulLLMData = EmptyMap
    /\ llmCache = EmptyMap
    /\ currentAPIRisks = <<>>
    /\ tick = NoTick
    /\ lastGood = EmptyMap
    /\ calls = EmptyMap
    /\ call = NoCall
    /\ trackerOp = NoOp
    /\ nops = 0
    /\ riskMu = [w |-> FALSE, r |-> {}]
    /\ hub = HubIdle
    /\ clients = {}
    /\ conns = [c \in Clients |-> NewConn]
    /\ upd = [pc |-> "idle", n |-> 0, returned |-> 0]
    /\ gets = [g \in Readers |-> NoGet]
    /\ pushed = <<>>
    /\ probe = NoProbe
    /\ proc = InitProc

Next == Tick \/ TickFetchError

Spec == Init /\ [][Next]_vars

\* The process from the load of the profiles to its end.
NextProcess ==
    \/ MainLoad
    \/ MainCheckGo
    \/ MainCheckCancelled
    \/ MainIteration
    \/ MainFetchError
    \/ MainSleepDone
    \/ MainSleepCancelled
    \/ Signal
    \/ WatcherCancel
    \/ WatcherShutdown
    \/ WatcherExit

\* main and the shutdown goroutine go on whenever they can: a fetch answers or fails, a
\* timer fires, a select whose context is cancelled returns.
ProcessFairness ==
    /\ WF_vars(MainLoad)
    /\ WF_vars(MainCheckGo)
    /\ WF_vars(MainCheckCancelled)
    /\ WF_vars(MainIteration \/ MainFetchError)
    /\ WF_vars(MainSleepDone \/ MainSleepCancelled)
    /\ WF_vars(WatcherCancel)
    /\ WF_vars(WatcherShutdown)
    /\ WF_vars(WatcherExit)

SpecProcess == Init /\ [][NextProcess]_vars /\ ProcessFairness

\* The loop runs for a while; then GetOrSummarize is called once on its own.
NextDirect == (~call.made /\ Next) \/ DirectGetOrSummarize

SpecDirect == Init /\ [][NextDirect]_vars

NextTracker == TrackerUpdate \/ TrackerCleanup \/ TrackerTimePasses

SpecTracker == Init /\ [][NextTracker]_vars

\* The stored snapshot: UpdateRisks against the GET handlers.
NextSnapshot ==
    \/ UpdateRisksLock
    \/ UpdateRisksStore
    \/ UpdateRisksBroadcast
    \/ UpdateRisksSkip
    \/ HubBroadcast
    \/ \E g \in Readers : GetRLock(g)
    \/ \E g \in Readers : GetEncodeData(g)
    \/ \E g \in Readers : GetEncodeLen(g)

SpecSnapshot == Init /\ [][NextSnapshot]_vars

\* The hub, its clients as they come and fail, and StopServer.
NextLifecycle ==
    \/ \E c \in Clients : HubRegister(c)
    \/ HubRegisterSend
    \/ \E c \in Clients : ClientDisconnect(c)
    \/ \E c \in Clients : ClientPongTimeout(c)
    \/ \E c \in Clients : ClientWriteFail(c)
    \/ \E c \in Clients : ClientWriteClosed(c)
    \/ \E c \in Clients : ClientReadClosed(c)
    \/ \E c \in Clients : HubUnregister(c)
    \/ HubUnregisterDone
    \/ \E c \in Clients : ClientWrite(c)
    \/ StopServerShutdown
    \/ StopServerStopHub
    \/ HubStop

\* Every goroutine that can run does run: the hub finishes the case it has entered and
\* readPump notices its closed connection; and the select of the hub, which picks at
\* random among the channels that are ready, does not pass over a client waiting on
\* hub.unregister for ever.
LifecycleFairness ==
    /\ WF_vars(HubRegisterSend)
    /\ WF_vars(HubUnregisterDone)
    /\ \A c \in Clients : WF_vars(ClientReadClosed(c)) /\ SF_vars(HubUnregister(c))

SpecLifecycle == Init /\ [][NextLifecycle]_vars /\ LifecycleFairness

\* The push: UpdateRisks against the hub and its clients.
NextHub ==
    \/ UpdateRisksLock
    \/ UpdateRisksStore
    \/ UpdateRisksBroadcast
    \/ UpdateRisksSkip
    \/ HubBroadcast
    \/ \E c \in Clients : HubRegister(c)
    \/ HubRegisterSend
    \/ \E c \in Clients : ClientDisconnect(c)
    \/ \E c \in Clients : HubUnregister(c)
    \/ HubUnregisterDone
    \/ \E c \in Clients : ClientWrite(c)

SpecHub == Init /\ [][NextHub]_vars

\* The push against a hub that registers, broadcasts and may be stopped, and clients
\* that never take a message from their queue, some of them dead.
NextPush ==
    \/ UpdateRisksLock
    \/ UpdateRisksStore
    \/ UpdateRisksBroadcast
    \/ UpdateRisksSkip
    \/ HubBroadcast
    \/ \E c \in Clients : HubRegister(c)
    \/ HubRegisterSend
    \/ \E c \in Clients : ClientWriteFail(c)
    \/ StopServerShutdown
    \/ StopServerStopHub
    \/ HubStop

SpecPush == Init /\ [][NextPush]_vars

NextProbe ==
    \/ ProbeEvaluateMetricChecks \/ ProbeScore \/ ProbeExpand \/ ProbeLoad
    \/ ProbeFingerprint \/ ProbeScan \/ ProbeFallback \/ ProbeCorrelate

SpecProbe == Init /\ [][NextProbe]_vars

(***************************************************************************)
(* Properties of the orchestrator loop.                                    *)
(***************************************************************************)
Age(tk) == tk.at - tk.last.LastLLMUpdate

SameFingerprint(tk) == Fingerprint(tk.current) = Fingerprint(tk.last)

\* The verdict fields of a published record.
VerdictOf(rec) ==
    [Risk |-> rec.Risk, Confidence |-> rec.Confidence, RootCause |-> rec.RootCause,
     ImmediateActions |-> rec.ImmediateActions, Investigation |-> rec.Investigation,
     Prevention |-> rec.Prevention, Summary |-> rec.Summary]

\* The score table of the specification, confidence in hundredths: floor(10c)
\* is (10 * c) \div 100, and \div rounds down.
TableScore(v) ==
    CASE v.Risk = "Critical" -> 90 + (10 * v.Confidence) \div 100
      [] v.Risk = "High" -> 70 + (20 * v.Confidence) \div 100
      [] v.Risk = "Medium" -> 40 + (30 * v.Confidence) \div 100
      [] v.Risk = "Low" -> 10 + (30 * v.Confidence) \div 100
      [] OTHER -> 0

Carries(rec, v) == VerdictOf(rec) = v /\ rec.Score = TableScore(v)

\* C1: in an iteration whose fingerprint equals the one committed in lastState and
\* whose distance to the last summary time is at most maxLLMUpdateAge, the oracle is
\* not invoked.
C1_ChangeGate ==
    (tick.fetched /\ SameFingerprint(tick) /\ Age(tick) <= maxLLMUpdateAge)
        => (tick.invoked = {} /\ ~tick.called)

\* An iteration with a correlation, an unchanged fingerprint and an age of exactly maxAge.
C1_Witness ==
    /\ tick.fetched /\ Len(tick.correlations) > 0
    /\ SameFingerprint(tick) /\ Age(tick) = maxLLMUpdateAge
    /\ ~tick.called

\* C2: an iteration with at least one correlation whose fingerprint differs from the
\* committed one, or that comes more than maxLLMUpdateAge after the last summary time,
\* calls GetOrSummarize.
C2_SummarizerScheduled ==
    (/\ tick.fetched
     /\ Len(tick.correlations) > 0
     /\ (~SameFingerprint(tick) \/ Age(tick) > maxLLMUpdateAge))
        => tick.called

\* A forced call: the fingerprint is the committed one and the age is beyond maxAge.
C2_Witness ==
    /\ tick.fetched /\ Len(tick.correlations) > 0
    /\ SameFingerprint(tick) /\ Age(tick) > maxLLMUpdateAge
    /\ tick.called

\* A call on a change of content alone: the counts are the committed ones.
C2_WitnessChanged ==
    /\ tick.fetched /\ tick.called /\ tick.n > 1
    /\ tick.current.AlertCount = tick.last.AlertCount
    /\ tick.current.SymptomCount = tick.last.SymptomCount
    /\ tick.current.MetricCount = tick.last.MetricCount
    /\ Age(tick) <= maxLLMUpdateAge

\* C4: a call of GetOrSummarize that follows, by less than the TTL, a call whose input
\* had the same fingerprint does not invoke the oracle.
C4_CacheFreshness ==
    (tick.called /\ tick.prevCallAt >= 0 /\ tick.at - tick.prevCallAt < CacheTTL)
        => tick.invoked = {}

\* C7: when the oracle fails for the correlation of a record (one whose alert service is
\* the record's service), and the oracle had answered for that service before, the
\* published record carries that last answer and the stored verdict is not replaced.
C7_FailureKeepsVerdict ==
    \A i \in 1..Len(tick.correlations) :
        LET svc == tick.uiData[i].Service
            grp == tick.correlations[i].Alert.Service
        IN (grp \in tick.failed /\ grp = svc /\ svc \in DOMAIN tick.goodBefore)
              => /\ Carries(currentAPIRisks[i], tick.goodBefore[svc])
                 /\ lastSuccessfulLLMData[svc] = tick.goodBefore[svc]

\* C8: when GetOrSummarize succeeds, every published record carries the verdict returned
\* for the service of its correlation, and the score that verdict gives.
C8_FreshVerdictAttached ==
    (tick.fetched /\ tick.called /\ ~tick.err)
        => \A i \in 1..Len(tick.correlations) :
              LET grp == tick.correlations[i].Alert.Service
              IN /\ grp \in DOMAIN tick.summaryMap
                 /\ Carries(currentAPIRisks[i], tick.summaryMap[grp])

\* C9: when the summarizer is not called, every published record whose service has an
\* earlier successful verdict carries the most recent one, with its score.
C9_ReusedVerdictAttached ==
    (tick.fetched /\ ~tick.called)
        => \A i \in 1..Len(currentAPIRisks) :
              currentAPIRisks[i].Service \in DOMAIN lastGood
                  => Carries(currentAPIRisks[i], lastGood[currentAPIRisks[i].Service])

\* C3: an iteration without correlations never invokes the oracle, whatever the
\* fingerprint and the age; and GetOrSummarize on an empty list returns an empty map,
\* invokes no oracle and leaves the cache as it was.
C3_NoCorrelationsNoOracle ==
    /\ (tick.fetched /\ Len(tick.correlations) = 0)
          => (tick.invoked = {} /\ ~tick.called)
    /\ (call.made /\ Len(call.input) = 0)
          => /\ call.summary = EmptyMap
             /\ ~call.err
             /\ call.invoked = {}
             /\ llmCache = call.cacheBefore

\* An iteration without correlations whose fingerprint changed, followed by a call on the
\* empty list against a cache that holds an entry.
C3_Witness ==
    /\ tick.fetched /\ Len(tick.correlations) = 0 /\ ~SameFingerprint(tick)
    /\ call.made /\ Len(call.input) = 0
    /\ call.cacheBefore # EmptyMap

(***************************************************************************)
(* Properties of the risk tracker.                                         *)
(***************************************************************************)
Fresh(item) == now - item.LastSeen <= item.TTL

\* C10 as stated: whatever calls and waits came before, every item of the tracker
\* satisfies now - lastSeen <= ttl.
C10_TTLInvariant == \A k \in DOMAIN tracker : Fresh(tracker[k])

\* C10, amended: when CleanupExpired returns, every item of the tracker satisfies
\* now - lastSeen <= ttl; until the next cleanup an item may grow older than its ttl.
C10_FreshAfterCleanup ==
    trackerOp.op = "cleanup" => \A k \in DOMAIN tracker : Fresh(tracker[k])

\* A cleanup that removed an item and kept another one whose age is exactly its ttl.
C10_Witness ==
    /\ trackerOp.op = "cleanup"
    /\ trackerOp.removed # {}
    /\ \E k \in DOMAIN tracker : now - tracker[k].LastSeen = tracker[k].TTL

(***************************************************************************)
(* Properties of the publisher.                                            *)
(***************************************************************************)
\* C5: a GET returns exactly one snapshot, never the data of one and the length of
\* another: the one stored last when it took the read lock.  So a GET that begins after
\* UpdateRisks(S) has returned, and before the next UpdateRisks stores, returns S.
C5_LatestWinsRegister ==
    \A g \in Readers :
        gets[g].pc = "done"
            => /\ gets[g].resp = Header(Snap(gets[g].stored))
               /\ gets[g].returned = gets[g].stored
                     => gets[g].resp = Header(Snap(gets[g].returned))

\* One GET answered with the first snapshot after UpdateRisks returned, another one,
\* begun while the second UpdateRisks had stored and not yet returned, with the second.
C5_Witness ==
    /\ gets["g1"].pc = "done" /\ gets["g1"].stored = 1 /\ gets["g1"].returned = 1
    /\ gets["g2"].pc = "done" /\ gets["g2"].stored = 2 /\ gets["g2"].returned = 1
    /\ gets["g2"].resp = Header(Snap(2))

\* C6: once UpdateRisks(S) has returned and the hub is back in its select, S has been
\* enqueued to every client that was registered with room in its queue when S was pushed.
C6_PushDelivery ==
    hub.pc = "select"
        => \A i \in 1..Len(pushed) : \A c \in pushed[i].targets : i \in conns[c].enq

\* The services the alerts of a list resolve to.
ServicesOf(alerts) == {alerts[i].Service : i \in 1..Len(alerts)}

\* The items an update at the present time created or refreshed.
LiveItems == {k \in DOMAIN tracker : tracker[k].LastSeen = now}

\* C11: after an update, the tracker holds exactly one live item per service the alerts
\* of the update resolve to: alerts of one service share an item, alerts of different
\* services have different items.
C11_OneItemPerService ==
    trackerOp.op = "update"
        => Cardinality(LiveItems) = Cardinality(ServicesOf(trackerOp.alerts))

\* The record main builds for a tracked item.
RecordOf(rec, item) == rec.Alert = item.AlertName /\ rec.Service = ProfileKey(item)

C13_AlertFilter ==
    tick.fetched
        => /\ \A i \in 1..Len(tick.alerts) : tick.alerts[i].Service \in validServices
           /\ \A k \in DOMAIN tracker : tracker[k].AlertName \in validServices
           /\ \A i \in 1..Len(currentAPIRisks) : currentAPIRisks[i].Alert \in validServices
           /\ (\A i \in 1..Len(tick.raw) : tick.raw[i].alertname \notin validServices)
                 => /\ tick.alerts = <<>>
                    /\ \A k \in DOMAIN tracker : tracker[k].LastSeen < tick.at

\* A firing alert of no profile arrives while an item is tracked and a record published.
C13_Witness ==
    /\ tick.fetched
    /\ \E i \in 1..Len(tick.raw) :
          tick.raw[i].alertname \notin validServices /\ tick.raw[i].state = "firing"
    /\ tracker # EmptyMap
    /\ currentAPIRisks # <<>>

\* C14: a firing alert whose name is the alertPattern of a loaded profile is returned
\* by the alert source with that profile's name as its service, and the iteration
\* builds a correlation and a record under that profile.
C14_AlertPatternResolves ==
    tick.fetched
        => \A i \in 1..Len(tick.raw) : \A p \in ProfileNames :
              (tick.raw[i].state = "firing" /\ tick.raw[i].alertname = profiles[p].AlertPattern)
                  => /\ \E j \in 1..Len(tick.alerts) :
                           /\ tick.alerts[j].Name = tick.raw[i].alertname
                           /\ tick.alerts[j].Service = p
                     /\ \E j \in 1..Len(tick.uiData) :
                           /\ tick.uiData[j].Service = p
                           /\ tick.uiData[j].Alert = tick.raw[i].alertname

(***************************************************************************)
(* Properties of the metric evaluator.                                     *)
(***************************************************************************)
\* value OP threshold, for the six operators of the configuration reference.
Compare(op, value, threshold) ==
    CASE op = ">"  -> value > threshold
      [] op = "<"  -> value < threshold
      [] op = ">=" -> value >= threshold
      [] op = "<=" -> value <= threshold
      [] op = "==" -> value = threshold
      [] op = "!=" -> value # threshold
      [] OTHER -> FALSE

\* C15: every trigger the metric evaluator emits satisfies value OP threshold for the
\* operator and the threshold of its own check.
C15_TriggerSound ==
    probe.fn = "EvaluateMetricChecks"
        => \A i \in 1..Len(probe.out) :
              Compare(probe.out[i].Check.Operator, probe.out[i].Value,
                      probe.out[i].Check.Threshold)

\* A call that emits two triggers, one of a ">" check and one of a "<" check.
C15_Witness ==
    /\ probe.fn = "EvaluateMetricChecks"
    /\ Len(probe.out) = 2
    /\ probe.out[1].Check.Operator = ">"
    /\ probe.out[2].Check.Operator = "<"

\* C16: a single check whose operator is one of the six and whose value satisfies value
\* OP threshold yields a trigger; a check with any other operator yields none.
C16_EveryOperatorTriggers ==
    (probe.fn = "EvaluateMetricChecks" /\ Len(probe.in.checks) = 1
     /\ probe.in.responses[1].ok /\ probe.in.responses[1].result # <<>>
     /\ ~ParseFloat(probe.in.responses[1].result[1]).err)
        => LET check == probe.in.checks[1]
               val == ParseFloat(probe.in.responses[1].result[1]).val
           IN Compare(check.Operator, val, check.Threshold)
                 <=> probe.out = <<[Service |-> "MyAPI", Check |-> check, Value |-> val]>>

\* C17 (as the code has it): for a confidence c in [0,1] both copies of the switch give
\* the same score, and that score is 90 + floor(10c), 70 + floor(20c), 40 + floor(30c),
\* 10 + floor(30c) for a risk that spells Critical, High, Medium, Low in any letter
\* case, and 0 for every risk that spells none of the four.
C17_ScoreIgnoresCase ==
    probe.fn = "Score" =>
        LET r == probe.in.Risk
            c == probe.in.Confidence
            expected ==
                CASE r \in {"Critical", "critical"} -> 90 + (10 * c) \div 100
                  [] r \in {"High", "HIGH"} -> 70 + (20 * c) \div 100
                  [] r = "Medium" -> 40 + (30 * c) \div 100
                  [] r = "Low" -> 10 + (30 * c) \div 100
                  [] OTHER -> 0
        IN /\ probe.out.fresh = probe.out.reused
           /\ probe.out.fresh = expected

\* A Medium verdict of confidence 0.29 scored 40 + floor(8.7) = 48 by both copies.
C17_Witness ==
    /\ probe.fn = "Score"
    /\ probe.in.Risk = "Medium" /\ probe.in.Confidence = 29
    /\ probe.out = [fresh |-> 48, reused |-> 48]

\* C17 as stated: the score is the table's, and 0 for any risk other than the four
\* names as written.
C17_ScoreTable ==
    probe.fn = "Score" =>
        /\ probe.out.fresh = TableScore(probe.in)
        /\ probe.out.reused = TableScore(probe.in)

\* C18: in the expanded text a placeholder ${FOO:-bar} has become the value of FOO when
\* FOO is set and non-empty and bar otherwise, and a placeholder ${UNSET} whose
\* variable is unset is still there as written.
C18_DefaultExpansion ==
    probe.fn = "expandEnvironmentVariables" =>
        \A i \in DOMAIN probe.in.content :
            LET t == probe.in.content[i]
                env == probe.in.env
            IN /\ (t.kind = "brace" /\ Len(t.inner) = 3 /\ t.inner[2] = ":-") =>
                      probe.out[i] = Lit(IF Getenv(env, <<t.inner[1]>>) # ""
                                         THEN Getenv(env, <<t.inner[1]>>)
                                         ELSE t.inner[3])
               /\ (t.kind = "brace" /\ Len(t.inner) = 1 /\ t.inner \notin DOMAIN env) =>
                      probe.out[i] = t

\* C19: a load never fails; no two profiles of the table share a name; every file
\* that is readable, decodes and validates has the name it declares (its file name when
\* it declares none) in the table, whatever invalid or duplicate files surround it; and
\* the one profile kept under a name is that of one such file declaring the name.
C19_ProfileUniqueness ==
    probe.fn = "LoadServiceProfiles" =>
        LET files == probe.in.files
            services == probe.in.services
            table == probe.out.profiles
            Migrated(i) == migrateLegacyConfig(files[i].profile, services[i])
            Valid(i) == /\ files[i].readable /\ files[i].yaml
                        /\ validateServiceProfile(Migrated(i), services[i])
            NameOf(i) == IF files[i].profile.Name = "" THEN services[i]
                         ELSE files[i].profile.Name
        IN /\ ~probe.out.err
           /\ \A k1, k2 \in DOMAIN table : table[k1].Name = table[k2].Name => k1 = k2
           /\ \A i \in DOMAIN files : Valid(i) => NameOf(i) \in DOMAIN table
           /\ \A k \in DOMAIN table :
                 \E i \in DOMAIN files :
                     Valid(i) /\ NameOf(i) = k /\ table[k] = applyDefaults(Migrated(i))

\* A directory with a file whose regex does not compile followed by two files that both
\* declare MyAPI: the table holds MyAPI alone, with the profile of the first of the two.
C19_Witness ==
    /\ probe.fn = "LoadServiceProfiles"
    /\ Len(probe.in.files) = 3
    /\ probe.in.files[1].profile.Description = "bad regex"
    /\ probe.in.files[2].profile.Description = "first"
    /\ probe.in.files[3].profile.Description = "second"
    /\ DOMAIN probe.out.profiles = {"MyAPI"}
    /\ probe.out.profiles["MyAPI"].Description = "first"

\* The symptoms attached to a list of correlations, one after the other.
RECURSIVE AttachedSymptoms(_)
AttachedSymptoms(correlations) ==
    IF correlations = <<>> THEN <<>>
    ELSE Head(correlations).Symptoms \o AttachedSymptoms(Tail(correlations))

\* C20: in every iteration, the symptoms attached to the correlation built for service S
\* are exactly the scanned symptoms labelled S or "unknown", in scan order, each with
\* service = S; the record of S carries these and no others; and the symptom count and
\* symptom hash of the fingerprint are taken over the attached symptoms only.
C20_SymptomsOfService ==
    tick.fetched =>
        /\ \A i \in DOMAIN tick.correlations :
              LET S == tick.uiData[i].Service
                  kept == SelectSeq(tick.obs.symptoms,
                                    LAMBDA sym : sym.Service \in {S, "unknown"})
                  attached == tick.correlations[i].Symptoms
              IN /\ \A j \in DOMAIN attached : attached[j].Service = S
                 /\ attached = [j \in 1..Len(kept) |-> [kept[j] EXCEPT !.Service = S]]
                 /\ tick.uiData[i].Symptoms =
                       [j \in 1..Len(attached) |->
                           [Pattern |-> attached[j].Pattern, Count |-> attached[j].Count]]
        /\ LET all == AttachedSymptoms(tick.correlations)
           IN /\ tick.current.SymptomCount = Len(all)
              /\ tick.current.SymptomsHash =
                    HashData([j \in 1..Len(all) |->
                                 [Service |-> all[j].Service, Pattern |-> all[j].Pattern,
                                  Count |-> all[j].Count]])

\* An iteration for MyAPI alone whose scan returned one symptom labelled "unknown" and
\* one labelled node: the first is attached as a symptom of MyAPI, the second is not,
\* and the fingerprint counts one symptom.
C20_Witness ==
    /\ tick.fetched
    /\ Len(tick.correlations) = 1
    /\ tick.uiData[1].Service = "MyAPI"
    /\ Len(tick.obs.symptoms) = 2
    /\ tick.obs.symptoms[1].Service = "unknown"
    /\ tick.obs.symptoms[2].Service = "node"
    /\ Len(tick.correlations[1].Symptoms) = 1
    /\ tick.correlations[1].Symptoms[1].Service = "MyAPI"
    /\ tick.current.SymptomCount = 1

\* The messages the send channel of a client took, oldest first.
Taken(c) == SelectSeq(conns[c].hist, LAMBDA e : e.taken)

\* C21: the first message put into the send channel of a client is the one of its
\* registration, it is taken, and it carries the snapshot stored when the hub handles the
\* registration; everything enqueued later comes by broadcast; and the channel hands the
\* messages to writePump in the order they were taken, the registration message first.
C21_InitialSnapshotFirst ==
    /\ [](\A c \in Clients :
            /\ conns[c].hist # <<>> =>
                  /\ conns[c].hist[1].how = "register" /\ conns[c].hist[1].taken
                  /\ \A j \in 2..Len(conns[c].hist) : conns[c].hist[j].how = "broadcast"
            /\ c \in clients /\ ~(hub.pc = "register" /\ hub.client = c) =>
                  conns[c].hist # <<>>
            /\ \E k \in 0..Len(Taken(c)) :
                  conns[c].send = [i \in 1..(Len(Taken(c)) - k) |->
                                      WebSocketMessage(Taken(c)[k + i].Data)])
    /\ [][hub.pc = "register" /\ hub'.pc = "select" =>
             conns'[hub.client].hist =
                 <<[how |-> "register", taken |-> TRUE, Data |-> currentAPIRisks]>>]_vars

\* A client registered after the first UpdateRisks and reached by the broadcast of the
\* second: its channel took the first snapshot on registration, then the second.
C21_Witness ==
    \E c \in Clients :
        /\ Len(conns[c].hist) = 2
        /\ conns[c].hist[1] = [how |-> "register", taken |-> TRUE, Data |-> Snap(1)]
        /\ conns[c].hist[2] = [how |-> "broadcast", taken |-> TRUE, Data |-> Snap(2)]

\* C22: a hub holding a broadcast message can always go on (it waits for no client);
\* when it has gone through its clients, every client whose send channel was full is out
\* of the client set with its channel closed, and every other client is still in the set
\* with the message appended to its channel; no client of the set has a closed channel.
C22_SlowSubscriberDropped ==
    /\ [](hub.pc = "broadcast" => ENABLED HubBroadcast)
    /\ [](\A c \in clients : ~conns[c].closed)
    /\ [][hub.pc = "broadcast" /\ hub'.pc = "select" =>
             \A c \in clients :
                 IF Len(conns[c].send) = SendBuffer
                 THEN /\ c \notin clients'
                      /\ conns'[c].closed
                      /\ conns'[c].send = conns[c].send
                 ELSE /\ c \in clients'
                      /\ ~conns'[c].closed
                      /\ conns'[c].send = Append(conns[c].send, hub.message)]_vars

\* The broadcast of the second snapshot found the channel of one client full and the
\* channel of the other with room: the first is closed and out of the set, the second
\* took the message and is still in it.
C22_Witness ==
    \E c, d \in Clients :
        /\ c # d
        /\ conns[c].hist # <<>>
        /\ conns[c].hist[Len(conns[c].hist)] =
              [how |-> "broadcast", taken |-> FALSE, Data |-> Snap(2)]
        /\ conns[c].closed /\ c \notin clients
        /\ conns[d].hist # <<>>
        /\ conns[d].hist[Len(conns[d].hist)] =
              [how |-> "broadcast", taken |-> TRUE, Data |-> Snap(2)]
        /\ d \in clients

\* The number of the UpdateRisks call a snapshot was handed to (0: the empty snapshot
\* the package starts with).
CallOf(data) == Len(data)

\* C23: the messages the send channel of a client took, the one of its registration
\* included, are in the order of the UpdateRisks calls: none carries the snapshot of an
\* earlier call than a message taken before it.
C23_SnapshotOrder ==
    \A c \in Clients :
        \A i, j \in 1..Len(Taken(c)) :
            i < j => CallOf(Taken(c)[i].Data) <= CallOf(Taken(c)[j].Data)

\* A client registered before the first UpdateRisks whose channel took the empty
\* snapshot, then the first, then the second.
C23_Witness ==
    \E c \in Clients :
        /\ Len(Taken(c)) = 3
        /\ Taken(c)[1].Data = Snap(0) /\ Taken(c)[1].how = "register"
        /\ Taken(c)[2].Data = Snap(1)
        /\ Taken(c)[3].Data = Snap(2)

\* C24: a client whose read failed, whose write failed or ran out of time, or whose pong
\* did not come is, while the hub runs, eventually out of the client set; and a client
\* joins the client set only by its one registration, never after it has left.
C24_SubscriberLifecycle ==
    /\ \A c \in Clients :
          (conns[c].cause # "none") ~> (c \notin clients \/ hub.pc = "stopped")
    /\ [][\A c \in Clients :
             (c \notin clients /\ c \in clients') =>
                 (conns[c].pc = "new" /\ conns[c].hist = <<>>)]_vars

\* One client removed by the hub after its write failed, the other after its pong did
\* not come, the hub still running.
C24_Witness ==
    /\ hub.pc = "select" /\ ~proc.stop
    /\ clients = {}
    /\ \E c, d \in Clients :
          /\ conns[c].cause = "write" /\ conns[c].pc = "gone" /\ conns[c].closed
          /\ conns[d].cause = "pong" /\ conns[d].pc = "gone" /\ conns[d].closed

\* C25: once StopServer has returned and the hub has stopped, the client set is empty and
\* the send channel of every client that was registered is closed.
C25_ShutdownClosesSubscribers ==
    (proc.stopper = "done" /\ hub.pc = "stopped") =>
        /\ clients = {}
        /\ \A c \in Clients : conns[c].hist # <<>> => conns[c].closed

\* C26: after the signal the loop of main ends (main returns or the process exits); a
\* main that sleeps, between iterations or after a failed fetch, while the context is
\* cancelled can return at once; and main, at its check or asleep with the context
\* cancelled, does not begin another iteration.
C26_LoopTerminates ==
    /\ proc.sig ~> (proc.main = "returned" \/ ~Alive)
    /\ []((Alive /\ proc.ctx /\ proc.main \in {"sleep", "errsleep"})
              => ENABLED MainSleepCancelled)
    /\ [][(proc.ctx /\ proc.main \in {"check", "sleep", "errsleep"})
              => proc'.main # "fetch"]_vars
    /\ [][proc.seen => ticks' = ticks]_vars

\* After one iteration whose fetch failed, main found the context cancelled and
\* returned, before the shutdown goroutine reached os.Exit.
C26_Witness ==
    /\ proc.main = "returned" /\ proc.seen
    /\ proc.watcher # "done"
    /\ tick.n = 1 /\ ~tick.fetched

\* C27: a process whose profile directory is not there ends with a status other than 0
\* and never reaches the check at the top of the loop; a process that ends after the
\* signal ends with status 0.
C27_ExitStatus ==
    /\ (proc.dir = "missing" /\ proc.main # "load") =>
          (proc.main = "returned" /\ proc.exit # NoExit /\ proc.exit # 0)
    /\ (proc.sig /\ ~Alive) => proc.exit = 0

\* C28: an iteration that called GetOrSummarize and whose call failed (the call returned
\* an error, or the summarizer behind it failed for a service) leaves lastState as it
\* was before the iteration.
C28_CommitOnlyOnSuccess ==
    (tick.fetched /\ tick.called /\ (tick.err \/ tick.failed # {}))
        => lastState = tick.last

\* C29: two iterations over the same tracked alerts and the same scanned content have
\* equal alert, symptom and metric hashes, in whatever order the tracker and the log
\* matcher enumerate their entries, and HasChanged is false between them.
C29_FingerprintOrderFree ==
    probe.fn = "fingerprint" =>
        /\ probe.out.first.AlertsHash = probe.out.second.AlertsHash
        /\ probe.out.first.SymptomsHash = probe.out.second.SymptomsHash
        /\ probe.out.first.MetricsHash = probe.out.second.MetricsHash
        /\ ~HasChanged(probe.out.first, probe.out.second)

\* C30: the step of main from a fetch that fails to the sleep that follows changes
\* neither the tracker, nor lastState, nor the stored verdicts, nor the cache, nor the
\* published snapshot, calls no summarizer and pushes nothing, and takes at least the
\* interval; from that sleep main goes nowhere but to the top of the loop (or returns,
\* when cancelled), and the timer that takes it there can always fire.
C30_FetchErrorFrame ==
    /\ [][(proc.main = "fetch" /\ proc'.main = "errsleep") =>
             /\ tracker' = tracker
             /\ lastState' = lastState
             /\ lastSuccessfulLLMData' = lastSuccessfulLLMData
             /\ llmCache' = llmCache
             /\ currentAPIRisks' = currentAPIRisks
             /\ calls' = calls
             /\ pushed' = pushed /\ hub' = hub /\ conns' = conns
             /\ ~tick'.called /\ tick'.invoked = {}
             /\ now' > now]_vars
    /\ [][proc.main = "errsleep" => proc'.main \in {"errsleep", "check", "returned"}]_vars
    /\ []((Alive /\ proc.main = "errsleep") => ENABLED MainSleepDone)

\* The second iteration failed to fetch after a first one that tracked an alert and
\* published a record: main sleeps, tracker and snapshot as the first left them.
C30_Witness ==
    /\ proc.main = "errsleep"
    /\ tick.n = 2 /\ ~tick.fetched
    /\ tracker # EmptyMap
    /\ currentAPIRisks # <<>>
    /\ lastState # InitialState

\* What a record carries of the correlation it was built from (main.go 355-369).
Basis(rec) ==
    [Service |-> rec.Service, Alert |-> rec.Alert, Severity |-> rec.Severity,
     Symptoms |-> rec.Symptoms, Metrics |-> rec.Metrics, Timestamp |-> rec.Timestamp]

\* C31: after an iteration whose fetch succeeded the published snapshot is the list of
\* records that iteration built, record for record (the verdict fields aside), whether
\* the summarizer was called, skipped or failed and whatever the queries answered.
C31_PublishEveryTick ==
    tick.fetched =>
        /\ Len(currentAPIRisks) = Len(tick.uiData)
        /\ \A i \in 1..Len(tick.uiData) : Basis(currentAPIRisks[i]) = Basis(tick.uiData[i])

\* An iteration built a record although the metric query failed, called the summarizer,
\* which failed, and published the record under the time of this iteration.
C31_Witness ==
    /\ tick.fetched /\ tick.n >= 2
    /\ tick.called /\ tick.failed # {}
    /\ tick.obs.metrics = <<QueryFailed>>
    /\ tick.uiData # <<>>
    /\ currentAPIRisks # <<>> /\ currentAPIRisks[1].Timestamp = tick.at

\* C32: a direct call of GetOrSummarize with a non-empty bundle returns the stored verdict
\* map without asking the oracle only when the entry of that bundle is younger than its
\* TTL; when the entry is at or past its TTL, or is no longer there, the oracle is asked
\* and the entry of the bundle is the answer, stamped with the time of the call.
C32_NoStaleVerdict ==
    (call.made /\ call.input # <<>>) =>
        LET inputHash == HashData(call.input)
            present == inputHash \in DOMAIN call.cacheBefore
        IN /\ call.invoked = {} =>
                /\ present
                /\ now - call.cacheBefore[inputHash].Timestamp < call.cacheBefore[inputHash].TTL
                /\ call.summary = call.cacheBefore[inputHash].Summary
           /\ (~present \/ now - call.cacheBefore[inputHash].Timestamp
                                >= call.cacheBefore[inputHash].TTL) =>
                /\ call.invoked # {}
                /\ inputHash \in DOMAIN llmCache
                /\ llmCache[inputHash].Timestamp = now
                /\ llmCache[inputHash].Summary = call.summary

\* The entry of the bundle was exactly TTL old, so CleanupExpired would have kept it;
\* the call asked the oracle and stored the answer anew.
C32_Witness ==
    /\ call.made /\ call.input # <<>>
    /\ HashData(call.input) \in DOMAIN call.cacheBefore
    /\ now - call.cacheBefore[HashData(call.input)].Timestamp = CacheTTL
    /\ call.invoked # {}
    /\ llmCache[HashData(call.input)].Timestamp = now

\* C33: after an update, an item that was tracked before it carries the name and the
\* severity of the last alert of the update that has its key, and the firstSeen it had.
C33_LatestAlertWins ==
    trackerOp.op = "update" =>
        \A i \in 1..Len(trackerOp.alerts) :
            LET a == trackerOp.alerts[i]
                key == a.Instance
            IN (/\ key \in DOMAIN trackerOp.before
                /\ \A j \in (i + 1)..Len(trackerOp.alerts) : trackerOp.alerts[j].Instance # key)
               => /\ tracker[key].AlertName = a.Name
                  /\ tracker[key].Severity = a.Severity
                  /\ tracker[key].FirstSeen = trackerOp.before[key].FirstSeen

\* C34: the symptoms main keeps of one scan for the processed service hold at most one
\* entry per pattern, and the count of an entry is the number of scanned documents of
\* that service, "unknown" ones included, whose message matches the pattern.
C34_OneSymptomPerPattern ==
    probe.fn = "scan" =>
        LET kept == probe.out.serviceSymptoms
            logs == probe.in.logs
        IN /\ \A i, j \in 1..Len(kept) : i # j => kept[i].Pattern # kept[j].Pattern
           /\ \A i \in 1..Len(kept) :
                 kept[i].Count =
                     Cardinality({d \in 1..Len(logs) :
                                     /\ logs[d].Service \in {probe.in.service, "unknown"}
                                     /\ kept[i].Pattern \in logs[d].Matches})

\* A response that yields a value: the query was answered, with a result whose scalar
\* is a number.
Answered(resp) == resp.ok /\ resp.result # <<>> /\ ~ParseFloat(resp.result[1]).err

\* C35: every trigger of a call comes from a check whose query yielded a value, with
\* that value; and every check whose query yielded a value beyond its threshold (for
\* the operators the evaluator knows) has its trigger, whatever the other queries did.
C35_BadQueryNoTrigger ==
    probe.fn = "EvaluateMetricChecks" =>
        LET checks == probe.in.checks
            responses == probe.in.responses
        IN /\ \A t \in 1..Len(probe.out) :
                 \E i \in 1..Len(checks) :
                    /\ Answered(responses[i])
                    /\ probe.out[t].Check = checks[i]
                    /\ probe.out[t].Value = ParseFloat(responses[i].result[1]).val
           /\ \A i \in 1..Len(checks) :
                 (/\ Answered(responses[i])
                  /\ checks[i].Operator \in {">", "<"}
                  /\ Compare(checks[i].Operator, ParseFloat(responses[i].result[1]).val,
                             checks[i].Threshold))
                 => \E t \in 1..Len(probe.out) :
                       /\ probe.out[t].Check = checks[i]
                       /\ probe.out[t].Value = ParseFloat(responses[i].result[1]).val

\* The lines of a file a scan with that scan_limit reads: all of them for 0 (the limit
\* is then 500), the first limit of them otherwise.
LinesRead(lines, limit) ==
    IF limit = 0 \/ Len(lines) <= limit THEN lines ELSE SubSeq(lines, 1, limit)

\* C36: when the log-store query fails for a profile whose file declares a log file
\* under data_sources, the symptoms kept for the service are those of the lines of
\* that file the scan limit lets in: one entry for each pattern and service label
\* (the processed service or "unknown") some such line has.
C36_FallbackToLogFile ==
    (probe.fn = "fallback" /\ probe.in.declared = "data_sources.log_file") =>
        LET read == LinesRead(probe.in.lines, probe.in.limit)
        IN Len(probe.out) =
              Cardinality({k \in {"MyAPI", "unknown"} \X {"critical_error", "kernel_error"} :
                              \E d \in 1..Len(read) :
                                 read[d].Service = k[1] /\ k[2] \in read[d].Matches})

\* C37: a call of UpdateRisks never waits for the hub or for a client: with nobody
\* reading the snapshot the lock is there to take, the store follows, and at the send
\* either the parked hub takes the message or the default branch is taken; the step at
\* the send ends the call.
C37_UpdateNeverWaits ==
    /\ []((upd.pc = "idle" /\ upd.n < MaxUpdates) => ENABLED UpdateRisksLock)
    /\ [](upd.pc = "locked" => ENABLED UpdateRisksStore)
    /\ [](upd.pc = "send" => ENABLED (UpdateRisksBroadcast \/ UpdateRisksSkip))
    /\ [][upd.pc = "send" => (upd'.pc = "send" \/ upd'.returned = upd.returned + 1)]_vars

\* A call returned, its push skipped, from a hub that had stopped, while a client whose
\* writePump had ended sat in the client set with a full queue.
C37_Witness ==
    /\ upd.pc = "idle" /\ upd.returned >= 1
    /\ pushed[Len(pushed)].skipped /\ pushed[Len(pushed)].hub = "stopped"
    /\ \E c \in clients : conns[c].writer = "stopped" /\ ~CanTake(conns[c])

\* C38: no operation of the hub on a send channel panics, that is, no channel is closed
\* twice and none is sent on after it was closed; a client whose channel is closed is
\* not in the client set, which is where the hub looks before it sends or closes.
C38_CloseOnce ==
    \A c \in Clients :
        /\ conns[c].panic = "none"
        /\ conns[c].closed => c \notin clients

\* A client was evicted by a broadcast that found its queue full; its readPump then
\* failed and the hub has handled its unregistration.
C38_Witness ==
    \E c \in Clients :
        /\ conns[c].pc = "gone" /\ hub.pc = "select"
        /\ \E i \in 1..Len(conns[c].hist) :
              conns[c].hist[i].how = "broadcast" /\ ~conns[c].hist[i].taken
        /\ conns[c].closed /\ conns[c].panic = "none"

\* C39: the records built in one iteration bear pairwise different services, and each
\* is the record of a tracked item whose profile key is a loaded profile.
C39_OneRecordPerService ==
    probe.fn = "correlate" =>
        /\ \A i, j \in 1..Len(probe.out) :
              i # j => probe.out[i].Service # probe.out[j].Service
        /\ \A i \in 1..Len(probe.out) :
              \E k \in DOMAIN probe.in.items :
                 /\ RecordOf(probe.out[i], probe.in.items[k])
                 /\ ProfileKey(probe.in.items[k]) \in DOMAIN profiles

\* Two tracked items, two instances with the same alert, gave one record.
C39_Witness ==
    /\ probe.fn = "correlate"
    /\ Cardinality(DOMAIN probe.in.items) = 2
    /\ \A k \in DOMAIN probe.in.items : ProfileKey(probe.in.items[k]) = "MyAPI"
    /\ Len(probe.out) = 1

====
